---------------------------- MODULE Spec2Model ----------------------------
(***************************************************************************)
(* A model of the documentation agent of elastic-package: the path sandbox *)
(* of the package tools (list_directory, read_file, write_file), the       *)
(* managed-document store (backup / restore), the response classifier and  *)
(* the task orchestrator in its interactive and unattended variants.       *)
(*                                                                         *)
(* Paths are sequences of path components.  An absolute path is the        *)
(* sequence of its components below "/": <<"pkg", "manifest">> is          *)
(* /pkg/manifest.  The file system maps the paths that exist to nodes.     *)
(***************************************************************************)
EXTENDS Integers, Sequences, FiniteSets, TLC

VARIABLES
    \* the package tools
    fs,          \* the file system: [path -> node] over the existing paths
    packageRoot, \* the packageRoot the tools were created with
    last,        \* the last tool call and its ToolResult
    calls,       \* number of tool calls made so far
    \* the documentation agent
    doc,                   \* the file _dev/build/docs/<targetDocFile>
    originalReadmeContent, \* DocumentationAgent.originalReadmeContent
    mode,        \* "interactive" or "unattended" (nonInteractive)
    pc,          \* where the task is
    prompt,      \* the prompt the next execution sends
    result,      \* the TaskResult the loop holds
    readmeUpdated, \* the local readmeUpdated of runInteractiveMode
    outcome,     \* what the task returned to its caller
    handledAs,   \* the branch the loop took on the last classified reply
    \* history, for the properties
    docAtStart,  \* the document when the task started
    execs,       \* calls of ExecuteTask so far
    backups,     \* calls of backupOriginalReadme so far
    restores,    \* calls of restoreOriginalReadme so far
    storeOp,     \* the last operation on the document store
    warnings,    \* the preservation warnings reported so far
    \* the protected-region engine
    originalContent, \* validatePreservedSections' originalContent
    newContent,      \* validatePreservedSections' newContent
    \* the tool registry
    registry,    \* the external providers and the tool list of the agent
    \* the status indicator
    status,      \* an AnimatedStatus, its caller and its animation goroutines
    \* the foreach command
    foreach      \* a run of a foreach sub-command and the process around it

sandboxVars == <<fs, packageRoot, last, calls>>

agentVars == <<doc, originalReadmeContent, mode, pc, prompt, result, readmeUpdated,
               outcome, handledAs, docAtStart, execs, backups, restores, storeOp,
               warnings>>

\* The parts whose operations are checked on their own.
libVars == <<originalContent, newContent, registry, status, foreach>>

vars == <<fs, packageRoot, last, calls,
          doc, originalReadmeContent, mode, pc, prompt, result, readmeUpdated,
          outcome, handledAs, docAtStart, execs, backups, restores, storeOp,
          warnings, originalContent, newContent, registry, status, foreach>>

-----------------------------------------------------------------------------
(* Bounds *)

\* Tool calls in one behaviour of the sandbox specification.
MaxCalls == 1

\* Symbolic links followed by one path resolution before it gives up (the
\* operating system's limit; Go's EvalSymlinks gives up after 255).
MaxLinks == 4

\* Calls of ExecuteTask in one task (the interactive loop has no limit of its own).
MaxExecs == 3

\* Writes and restores in one behaviour of the document-store specification.
MaxStoreOps == 3

-----------------------------------------------------------------------------
(* The file system *)

NoNode == [kind |-> "none"]
DirNode == [kind |-> "dir"]
FileNode(c) == [kind |-> "file", content |-> c]
LinkNode(t) == [kind |-> "link", target |-> t]

Node(f, p) == IF p \in DOMAIN f THEN f[p] ELSE NoNode

Parent(p) == SubSeq(p, 1, Len(p) - 1)

IsPrefix(a, b) == Len(a) <= Len(b) /\ SubSeq(b, 1, Len(a)) = a

\* The real root of the package and the directories below it.
RealRoot == <<"pkg">>
AllowedSub == <<"_dev", "build", "docs">>
RealAllowed == RealRoot \o AllowedSub

\* The tree every initial file system has.
BaseTree ==
    ( <<"pkg">> :> DirNode
   @@ <<"pkg", "manifest">> :> FileNode("m")
   @@ <<"pkg", "..h">> :> FileNode("h")
   @@ <<"pkg", "_dev">> :> DirNode
   @@ <<"pkg", "_dev", "build">> :> DirNode
   @@ <<"pkg", "_dev", "build", "docs">> :> DirNode
   @@ <<"pkg", "docs">> :> DirNode
   @@ <<"pkg", "docs", "README">> :> FileNode("g")
   @@ <<"pkg", "docs", "knowledge_base">> :> DirNode
   @@ <<"pkg", "docs", "knowledge_base", "k">> :> FileNode("k")
   @@ <<"out">> :> DirNode
   @@ <<"out", "secret">> :> FileNode("s") )

\* Where a symbolic link may sit in the initial tree, and what it may point to.
LinkInAllowed == RealAllowed \o <<"lnk">>
LinkInRoot == RealRoot \o <<"lnk">>
LinkBack == <<"out", "back">>
LinkToRoot == <<"pkgl">>

NoLink == <<"-">>
TargetsInAllowed ==
    {NoLink, <<"out">>, <<"out", "secret">>, <<"out", "new">>,
     <<"pkg">>, <<"pkg", "manifest">>}
TargetsInRoot == {NoLink, <<"out">>, <<"out", "secret">>, <<"pkg", "lnk">>}
TargetsBack == {NoLink, <<"pkg", "manifest">>}
TargetsToRoot == {NoLink, <<"pkg">>}

Opt(p, n, present) == IF present THEN p :> n ELSE <<>>

InitialTree(la, lr, lb, lroot, readme) ==
       Opt(LinkInAllowed, LinkNode(la), la # NoLink)
    @@ Opt(LinkInRoot, LinkNode(lr), lr # NoLink)
    @@ Opt(LinkBack, LinkNode(lb), lb # NoLink)
    @@ Opt(LinkToRoot, LinkNode(lroot), lroot # NoLink)
    @@ Opt(RealAllowed \o <<"README">>, FileNode("r"), readme)
    @@ BaseTree

\* The relative paths a tool call may name (the "path" argument, split at "/").
UserPaths ==
    { <<>>,
      <<"manifest">>,
      <<"new">>,
      <<"..h">>,
      <<"..">>,
      <<"..", "out", "secret">>,
      <<"..", "out", "back">>,
      <<"..", "pkg", "manifest">>,
      <<"_dev", "..", "manifest">>,
      <<"lnk">>,
      <<"lnk", "secret">>,
      <<"lnk", "new">>,
      <<"docs", "README">>,
      <<"docs">>,
      <<".", "docs", "README">>,
      <<"_dev", "..", "docs", "README">>,
      <<"docs", "knowledge_base", "k">>,
      <<"docs", "knowledge_base", "..", "README">>,
      <<"_dev", "build">>,
      <<"_dev", "build", "docs">>,
      <<"_dev", "build", "docs", "README">>,
      <<"_dev", "build", "docs", "README", "x">>,
      <<"_dev", "build", "docs", "lnk">>,
      <<"_dev", "build", "docs", "lnk", "secret">>,
      <<"_dev", "build", "docs", "lnk", "new">>,
      <<"_dev", "build", "docs", "lnk", "manifest">>,
      <<"_dev", "build", "docs", "sub", "new">>,
      <<"_dev", "build", "docs", "..", "..", "..", "manifest">> }

WriteContents == {"w"}

\* Arguments that json.Unmarshal does not accept, where a call gives them in
\* the place of its path.
MalformedArguments == <<"{">>

ToolArguments == UserPaths \cup {MalformedArguments}

-----------------------------------------------------------------------------
(* path/filepath *)

\* filepath.Clean on the components of an absolute path: "." and empty
\* components are dropped, ".." removes the component before it and is
\* dropped at the root.
RECURSIVE CleanFrom(_, _)
CleanFrom(acc, rest) ==
    IF rest = <<>> THEN acc
    ELSE LET c == Head(rest) IN
         IF c = "." \/ c = "" THEN CleanFrom(acc, Tail(rest))
         ELSE IF c = ".."
              THEN CleanFrom(IF acc = <<>> THEN <<>> ELSE Parent(acc), Tail(rest))
              ELSE CleanFrom(Append(acc, c), Tail(rest))

Clean(p) == CleanFrom(<<>>, p)

\* filepath.Join(root, userPath): the concatenation, cleaned.
Join(root, userPath) == Clean(root \o userPath)

RECURSIVE CommonLen(_, _)
CommonLen(a, b) ==
    IF a = <<>> \/ b = <<>> \/ Head(a) # Head(b) THEN 0
    ELSE 1 + CommonLen(Tail(a), Tail(b))

\* filepath.Rel(base, targ) of two clean absolute paths: one ".." for every
\* component of base below the common prefix, then the rest of targ; "." when
\* they are the same path.
Rel(base, targ) ==
    LET k == CommonLen(base, targ)
        ups == [i \in 1 .. (Len(base) - k) |-> ".."]
        r == ups \o SubSeq(targ, k + 1, Len(targ))
    IN IF r = <<>> THEN <<".">> ELSE r

\* The components of the model whose first two characters are dots.
DotDotNames == {"..", "..h"}

\* strings.HasPrefix(relPath, "..") on the string of a relative path: the
\* string starts with its first component.
HasPrefixDotDot_Segment(rel) == rel # <<>> /\ Head(rel) = ".."
HasPrefixDotDot(rel) == rel # <<>> /\ Head(rel) \in DotDotNames

-----------------------------------------------------------------------------
(* Path resolution: the walk of a path through the file system that both   *)
(* filepath.EvalSymlinks and the operating system's own resolution make.   *)
(* err is "none" (path is the resolved path of an existing node),          *)
(* "notexist" (the node at path does not exist; rest are the components    *)
(* after it; viaLink says it was named by the target of a link), "notdir"  *)
(* (a component below a file) or "loop" (too many links).                  *)

RECURSIVE Walk(_, _, _, _, _)
Walk(f, dest, rest, fuel, linkLeft) ==
    IF rest = <<>>
    THEN [err |-> "none", path |-> dest, rest |-> <<>>, viaLink |-> FALSE]
    ELSE LET p == Append(dest, Head(rest))
             n == Node(f, p)
             left == IF linkLeft > 0 THEN linkLeft - 1 ELSE 0
         IN CASE n.kind = "none" ->
                   [err |-> "notexist", path |-> p, rest |-> Tail(rest),
                    viaLink |-> (linkLeft = 1)]
              [] n.kind = "link" ->
                   IF fuel = 0
                   THEN [err |-> "loop", path |-> p, rest |-> Tail(rest),
                         viaLink |-> FALSE]
                   ELSE Walk(f, <<>>, n.target \o Tail(rest), fuel - 1,
                             Len(n.target))
              [] n.kind = "file" /\ Tail(rest) # <<>> ->
                   [err |-> "notdir", path |-> p, rest |-> Tail(rest),
                    viaLink |-> FALSE]
              [] OTHER -> Walk(f, p, Tail(rest), fuel, left)

\* filepath.EvalSymlinks(path)
EvalSymlinks(f, path) == Walk(f, <<>>, path, MaxLinks, 0)

\* os.IsNotExist(err) for the error of a resolution
IsNotExist(r) == r.err = "notexist"

-----------------------------------------------------------------------------
(* The operating system calls the handlers make.  Each follows symbolic    *)
(* links the way the kernel does, the last component included.             *)

OSWalk(f, path) == Walk(f, <<>>, path, MaxLinks, 0)

\* os.ReadFile(path): the content of the file the path resolves to.
OSReadFile(f, path) ==
    LET r == OSWalk(f, path) IN
    IF r.err = "none" /\ Node(f, r.path).kind = "file"
    THEN [ok |-> TRUE, content |-> Node(f, r.path).content]
    ELSE [ok |-> FALSE, content |-> ""]

\* os.ReadDir(path): the names in the directory the path resolves to.
OSReadDir(f, path) ==
    LET r == OSWalk(f, path) IN
    IF r.err = "none" /\ Node(f, r.path).kind = "dir"
    THEN [ok |-> TRUE,
          names |-> {q[Len(q)] : q \in {x \in DOMAIN f : x # <<>> /\ Parent(x) = r.path}}]
    ELSE [ok |-> FALSE, names |-> {}]

\* os.MkdirAll(dir): nothing to do when dir resolves to a directory; an error
\* when it resolves to a file, when a component is a link whose target is
\* missing (mkdir finds the link in its way) or when resolution fails; else
\* the missing directories are created where the path resolves to.
OSMkdirAll(f, dir) ==
    LET r == OSWalk(f, dir) IN
    CASE r.err = "none" -> [ok |-> Node(f, r.path).kind = "dir", fs |-> f]
      [] r.err = "notexist" /\ ~r.viaLink ->
           [ok |-> TRUE,
            fs |-> [q \in {r.path \o SubSeq(r.rest, 1, i) : i \in 0 .. Len(r.rest)}
                         |-> DirNode] @@ f]
      [] OTHER -> [ok |-> FALSE, fs |-> f]

\* os.WriteFile(path, content, 0o644): open with O_CREATE|O_TRUNC.  An
\* existing file is overwritten where the path resolves to; a missing last
\* component is created there (through a dangling link as well); a directory,
\* or a missing intermediate component, is an error.
OSWriteFile(f, path, content) ==
    LET r == OSWalk(f, path) IN
    CASE r.err = "none" /\ Node(f, r.path).kind = "file" ->
           [ok |-> TRUE, fs |-> [f EXCEPT ![r.path] = FileNode(content)]]
      [] r.err = "notexist" /\ r.rest = <<>> ->
           [ok |-> TRUE, fs |-> (r.path :> FileNode(content)) @@ f]
      [] OTHER -> [ok |-> FALSE, fs |-> f]

-----------------------------------------------------------------------------
(* The package tools *)

\* A ToolResult: Content, or Error.  Error is the kind of the message ("" for
\* none); every denial of the sandbox starts with "access denied".  Entries
\* are the names a directory listing shows.
ResultContent(c) == [Content |-> c, Error |-> "", Entries |-> {}]
ResultListing(names) == [Content |-> "Contents of", Error |-> "", Entries |-> names]
ResultError(e) == [Content |-> "", Error |-> e, Entries |-> {}]

AccessDenied == "access denied"
Denied(res) == res.Error = AccessDenied

\* validatePathInRoot without the test of the relative path.
validatePathInRoot_NoRelCheck(f, root, userPath) ==
    LET fullPath == Join(root, userPath)
        ev == EvalSymlinks(f, fullPath)
        evRoot == EvalSymlinks(f, root)
    IN CASE ev.err # "none" /\ ~IsNotExist(ev) -> [ok |-> FALSE, fullPath |-> <<>>]
         [] evRoot.err # "none" -> [ok |-> FALSE, fullPath |-> <<>>]
         [] OTHER -> [ok |-> TRUE, fullPath |-> fullPath]

\* validatePathInRoot(packageRoot, userPath): the full path, or an error.
validatePathInRoot(f, root, userPath) ==
    LET fullPath == Join(root, userPath)
        ev == EvalSymlinks(f, fullPath)
        evRoot == EvalSymlinks(f, root)
        resolvedPath == IF ev.err = "none" THEN ev.path ELSE Clean(fullPath)
        relPath == Rel(Clean(evRoot.path), Clean(resolvedPath))
    IN CASE ev.err # "none" /\ ~IsNotExist(ev) -> [ok |-> FALSE, fullPath |-> <<>>]
         [] evRoot.err # "none" -> [ok |-> FALSE, fullPath |-> <<>>]
         [] HasPrefixDotDot(relPath) -> [ok |-> FALSE, fullPath |-> <<>>]
         [] OTHER -> [ok |-> TRUE, fullPath |-> fullPath]

\* The handler of list_directory: the result (the file system is not changed).
listDirectoryHandler(f, root, userPath) ==
    LET v == validatePathInRoot(f, root, userPath)
        d == OSReadDir(f, v.fullPath)
    IN CASE userPath = MalformedArguments -> ResultError("failed to parse arguments")
         [] ~v.ok -> ResultError(AccessDenied)
         [] ~d.ok -> ResultError("failed to read directory")
         [] OTHER -> ResultListing(d.names \ {"docs"})

\* strings.HasPrefix(args.Path, "docs/") && !strings.HasPrefix(args.Path,
\* "docs/knowledge_base/") on the components of the path as given.
InGeneratedDocs(userPath) ==
    /\ Len(userPath) >= 2 /\ userPath[1] = "docs"
    /\ ~(Len(userPath) >= 3 /\ userPath[2] = "knowledge_base")

\* The handler of read_file with a result that has the content of the file
\* next to the error of the exclusion of docs/.
readFileHandler_ContentWithError(f, root, userPath) ==
    LET v == validatePathInRoot(f, root, userPath)
        c == OSReadFile(f, v.fullPath)
    IN CASE userPath = MalformedArguments -> ResultError("failed to parse arguments")
         [] InGeneratedDocs(userPath) /\ v.ok /\ c.ok ->
              [Content |-> c.content, Error |-> AccessDenied, Entries |-> {}]
         [] InGeneratedDocs(userPath) -> ResultError(AccessDenied)
         [] ~v.ok -> ResultError(AccessDenied)
         [] ~c.ok -> ResultError("failed to read file")
         [] OTHER -> ResultContent(c.content)

\* The handler of read_file.
readFileHandler(f, root, userPath) ==
    LET v == validatePathInRoot(f, root, userPath)
        c == OSReadFile(f, v.fullPath)
    IN CASE userPath = MalformedArguments -> ResultError("failed to parse arguments")
         [] InGeneratedDocs(userPath) -> ResultError(AccessDenied)
         [] ~v.ok -> ResultError(AccessDenied)
         [] ~c.ok -> ResultError("failed to read file")
         [] OTHER -> ResultContent(c.content)

\* The handler of write_file with the directories created before the test of
\* the allowed directory.
writeFileHandler_MkdirFirst(f, root, userPath, content) ==
    LET v == validatePathInRoot(f, root, userPath)
        fullPath == v.fullPath
        allowedDir == Join(root, AllowedSub)
        ea == EvalSymlinks(f, allowedDir)
        resolvedAllowed == IF ea.err = "none" THEN ea.path ELSE Clean(allowedDir)
        relPath == Rel(Clean(resolvedAllowed), Clean(fullPath))
        md == OSMkdirAll(f, Parent(fullPath))
        wr == OSWriteFile(md.fs, fullPath, content)
    IN CASE userPath = MalformedArguments ->
              [res |-> ResultError("failed to parse arguments"), fs |-> f]
         [] ~v.ok -> [res |-> ResultError(AccessDenied), fs |-> f]
         [] ea.err # "none" /\ ~IsNotExist(ea) ->
              [res |-> ResultError("failed to resolve allowed directory"), fs |-> f]
         [] ~md.ok -> [res |-> ResultError("failed to create directory"), fs |-> md.fs]
         [] HasPrefixDotDot(relPath) -> [res |-> ResultError(AccessDenied), fs |-> md.fs]
         [] ~wr.ok -> [res |-> ResultError("failed to write file"), fs |-> wr.fs]
         [] OTHER -> [res |-> ResultContent("Successfully wrote"), fs |-> wr.fs]

\* The handler of write_file: the result and the file system it leaves.
writeFileHandler(f, root, userPath, content) ==
    LET v == validatePathInRoot(f, root, userPath)
        fullPath == v.fullPath
        allowedDir == Join(root, AllowedSub)
        ea == EvalSymlinks(f, allowedDir)
        resolvedAllowed == IF ea.err = "none" THEN ea.path ELSE Clean(allowedDir)
        relPath == Rel(Clean(resolvedAllowed), Clean(fullPath))
        md == OSMkdirAll(f, Parent(fullPath))
        wr == OSWriteFile(md.fs, fullPath, content)
    IN CASE userPath = MalformedArguments ->
              [res |-> ResultError("failed to parse arguments"), fs |-> f]
         [] ~v.ok -> [res |-> ResultError(AccessDenied), fs |-> f]
         [] ea.err # "none" /\ ~IsNotExist(ea) ->
              [res |-> ResultError("failed to resolve allowed directory"), fs |-> f]
         [] HasPrefixDotDot(relPath) -> [res |-> ResultError(AccessDenied), fs |-> f]
         [] ~md.ok -> [res |-> ResultError("failed to create directory"), fs |-> md.fs]
         [] ~wr.ok -> [res |-> ResultError("failed to write file"), fs |-> wr.fs]
         [] OTHER -> [res |-> ResultContent("Successfully wrote"), fs |-> wr.fs]

\* The handler of write_file of the copy of the tools that has no
\* validatePathInRoot: the paths are compared as they are given, no link is
\* resolved.
writeFileHandlerOld(f, root, userPath, content) ==
    LET fullPath == Join(root, userPath)
        allowedDir == Join(root, AllowedSub)
        relPath == Rel(Clean(allowedDir), Clean(fullPath))
        md == OSMkdirAll(f, Parent(fullPath))
        wr == OSWriteFile(md.fs, fullPath, content)
    IN CASE userPath = MalformedArguments ->
              [res |-> ResultError("failed to parse arguments"), fs |-> f]
         [] HasPrefixDotDot(relPath) -> [res |-> ResultError(AccessDenied), fs |-> f]
         [] ~md.ok -> [res |-> ResultError("failed to create directory"), fs |-> md.fs]
         [] ~wr.ok -> [res |-> ResultError("failed to write file"), fs |-> wr.fs]
         [] OTHER -> [res |-> ResultContent("Successfully wrote"), fs |-> wr.fs]

-----------------------------------------------------------------------------
(* Text.  A string is the sequence of its words; punctuation marks are     *)
(* words of their own and " " is a run of white space.                     *)

\* strings.ToLower on one word: the words of the model that have capitals.
LowerWord(w) ==
    CASE w = "I" -> "i"
      [] w = "I'm" -> "i'm"
      [] w = "Something" -> "something"
      [] w = "There" -> "there"
      [] w = "Error" -> "error"
      [] w = "Task" -> "task"
      [] w = "Successfully" -> "successfully"
      [] w = "FAILED" -> "failed"
      [] w = "MAXIMUM" -> "maximum"
      [] OTHER -> w

ToLower(s) == [i \in 1 .. Len(s) |-> LowerWord(s[i])]

\* strings.Contains(s, sub)
Contains(s, sub) ==
    \E i \in 0 .. (Len(s) - Len(sub)) : SubSeq(s, i + 1, i + Len(sub)) = sub

\* strings.TrimSpace(s) == ""
IsBlank(s) == \A i \in 1 .. Len(s) : s[i] \in {" ", "\n"}

-----------------------------------------------------------------------------
(* The response classifier *)

errorIndicators ==
    { <<"I", "encountered", "an", "error">>,
      <<"I'm", "experiencing", "an", "error">>,
      <<"I", "cannot", "complete">>,
      <<"I'm", "unable", "to", "complete">>,
      <<"Something", "went", "wrong">>,
      <<"There", "was", "an", "error">>,
      <<"I'm", "having", "trouble">>,
      <<"I", "failed", "to">>,
      <<"Error", "occurred">>,
      <<"Task", "did", "not", "complete", "within", "maximum", "iterations">> }

tokenLimitIndicators ==
    { <<"I", "reached", "the", "maximum", "response", "length">>,
      <<"maximum", "response", "length">>,
      <<"reached", "the", "token", "limit">>,
      <<"response", "is", "too", "long">>,
      <<"breaking", "this", "into", "smaller", "tasks">>,
      <<"due", "to", "length", "constraints">>,
      <<"response", "length", "limit">>,
      <<"token", "limit", "reached">>,
      <<"output", "limit", "exceeded">>,
      <<"maximum", "length", "exceeded">> }

\* "(check)" stands for the check-mark sign and "(cross)" for the cross sign
\* of the source's phrases.
successIndicators ==
    { <<"(check)", "success">>, <<"successfully", "wrote">>,
      <<"completed", "successfully">> }

failureIndicators ==
    { <<"(cross)", "error">>, <<"failed", ":">>, <<"access", "denied">> }

\* The number of trailing conversation entries hasRecentSuccessfulTools reads.
RecentWindow == 5

\* isTokenLimitMessage(content)
isTokenLimitMessage(content) ==
    \E ind \in tokenLimitIndicators : Contains(ToLower(content), ToLower(ind))

\* hasRecentSuccessfulTools(conversation): from the last entry backwards over
\* at most RecentWindow entries, the first tool_result with a success phrase
\* answers true, the first with a failure phrase answers false.
RECURSIVE RecentFrom(_, _)
RecentFrom(conversation, i) ==
    IF i < 1 \/ i < Len(conversation) - RecentWindow + 1 THEN FALSE
    ELSE LET entry == conversation[i]
             content == ToLower(entry.Content)
         IN IF entry.Type = "tool_result"
                 /\ \E ind \in successIndicators : Contains(content, ind)
            THEN TRUE
            ELSE IF entry.Type = "tool_result"
                      /\ \E ind \in failureIndicators : Contains(content, ind)
                 THEN FALSE
                 ELSE RecentFrom(conversation, i - 1)

\* hasRecentSuccessfulTools that takes a success phrase in any tool result,
\* however old and whatever follows it.
hasRecentSuccessfulTools_AnySuccess(conversation) ==
    \E i \in 1 .. Len(conversation) :
        /\ conversation[i].Type = "tool_result"
        /\ \E ind \in successIndicators : Contains(ToLower(conversation[i].Content), ind)

hasRecentSuccessfulTools(conversation) == RecentFrom(conversation, Len(conversation))

\* isTaskResultError without its test for a token-limit message.
isTaskResultError_NoTokenTest(content, conversation) ==
    /\ ~IsBlank(content)
    /\ \E ind \in errorIndicators : Contains(ToLower(content), ToLower(ind))
    /\ ~hasRecentSuccessfulTools(conversation)

\* isTaskResultError that takes an empty reply for an error unless a recent
\* tool succeeded.
isTaskResultError_EmptyIsError(content, conversation) ==
    CASE IsBlank(content) -> ~hasRecentSuccessfulTools(conversation)
      [] isTokenLimitMessage(content) -> FALSE
      [] ~\E ind \in errorIndicators : Contains(ToLower(content), ToLower(ind)) -> FALSE
      [] hasRecentSuccessfulTools(conversation) -> FALSE
      [] OTHER -> TRUE

\* isTaskResultError(content, conversation).  A nil conversation is the empty
\* one: hasRecentSuccessfulTools answers false on both.
isTaskResultError(content, conversation) ==
    CASE IsBlank(content) -> FALSE
      [] isTokenLimitMessage(content) -> FALSE
      [] ~\E ind \in errorIndicators : Contains(ToLower(content), ToLower(ind)) -> FALSE
      [] hasRecentSuccessfulTools(conversation) -> FALSE
      [] OTHER -> TRUE

-----------------------------------------------------------------------------
(* The managed document and its backup *)

\* The document file: absent, or a file with a content.  readable is false
\* for a file the process may not open (os.Stat succeeds, os.ReadFile and
\* os.WriteFile fail).
Absent == [exists |-> FALSE, readable |-> FALSE, content |-> ""]
DocFile(c) == [exists |-> TRUE, readable |-> TRUE, content |-> c]
LockedFile(c) == [exists |-> TRUE, readable |-> FALSE, content |-> c]

\* *string: nil, or a pointer to a content
Nil == [set |-> FALSE, content |-> ""]
Some(c) == [set |-> TRUE, content |-> c]

DocContents == {"", "A", "B", "C"}
InitialDocs == {Absent, DocFile(""), DocFile("A"), LockedFile("A")}

\* os.WriteFile(docPath, content, 0o644) on the document
DocWriteFile(d, c) == IF d.exists /\ ~d.readable THEN d ELSE DocFile(c)

\* backupOriginalReadme with the test of os.Stat's error inverted.
backupOriginalReadme_Mut(d, orig) == IF d.exists THEN Nil ELSE orig

\* backupOriginalReadme(): the new originalReadmeContent
backupOriginalReadme(d, orig) ==
    IF d.exists
    THEN IF d.readable THEN Some(d.content) ELSE orig
    ELSE Nil

\* restoreOriginalReadme that removes nothing when there is no backup.
restoreOriginalReadme_Mut(d, orig) == IF orig.set THEN DocWriteFile(d, orig.content) ELSE d

\* restoreOriginalReadme(): the document it leaves
restoreOriginalReadme(d, orig) ==
    IF orig.set THEN DocWriteFile(d, orig.content) ELSE Absent

\* checkReadmeUpdated that takes no document for updated unless there was one
\* before.
checkReadmeUpdated_NeedsOriginal(d, orig) ==
    CASE ~d.exists -> FALSE
      [] ~d.readable -> FALSE
      [] ~orig.set -> FALSE
      [] OTHER -> d.content # orig.content

\* checkReadmeUpdated()
checkReadmeUpdated(d, orig) ==
    CASE ~d.exists -> FALSE
      [] ~d.readable -> FALSE
      [] ~orig.set -> d.content # ""
      [] OTHER -> d.content # orig.content

\* readCurrentReadme(): the content, or an error
readCurrentReadme(d) ==
    IF d.exists /\ d.readable THEN [err |-> FALSE, content |-> d.content]
    ELSE [err |-> TRUE, content |-> ""]

\* handleReadmeUpdate without the test for an empty document.
handleReadmeUpdate_AcceptsEmpty(d, orig) ==
    LET r == readCurrentReadme(d) IN
    CASE ~checkReadmeUpdated(d, orig) -> [updated |-> FALSE, err |-> FALSE]
      [] r.err -> [updated |-> FALSE, err |-> TRUE]
      [] OTHER -> [updated |-> TRUE, err |-> FALSE]

\* handleReadmeUpdate(): (updated, err)
handleReadmeUpdate(d, orig) ==
    LET r == readCurrentReadme(d) IN
    CASE ~checkReadmeUpdated(d, orig) -> [updated |-> FALSE, err |-> FALSE]
      [] r.err \/ r.content = "" -> [updated |-> FALSE, err |-> r.err]
      [] OTHER -> [updated |-> TRUE, err |-> FALSE]

\* displayReadmeIfUpdated(): whether the document was updated (what it shows
\* is not modelled)
displayReadmeIfUpdated(d, orig) ==
    LET r == readCurrentReadme(d) IN
    checkReadmeUpdated(d, orig) /\ ~r.err /\ r.content # ""

-----------------------------------------------------------------------------
(* The protected-region engine.  A content is the sequence of its words;   *)
(* a marker is one word.                                                    *)

PreserveStart == "<!-- PRESERVE START -->"
PreserveEnd == "<!-- PRESERVE END -->"

\* startIdx + strings.Index(content[startIdx:], word), counted from 1; 0 when
\* the word is not there.
RECURSIVE IndexFrom(_, _, _)
IndexFrom(content, word, startIdx) ==
    CASE startIdx > Len(content) -> 0
      [] content[startIdx] = word -> startIdx
      [] OTHER -> IndexFrom(content, word, startIdx + 1)

\* fmt.Sprintf("%s-%d", marker.name, sectionNum)
SectionKey(sectionNum) == <<"PRESERVE", sectionNum>>

\* A scan that stops after its first section
ExtractFrom_FirstOnly(content, startIdx, sectionNum) ==
    LET start == IndexFrom(content, PreserveStart, startIdx)
        end == IndexFrom(content, PreserveEnd, start)
    IN IF start = 0 \/ end = 0 THEN <<>>
       ELSE (SectionKey(sectionNum) :> SubSeq(content, start, end))

\* extractPreservedSections: the loop over one content from startIdx on.
RECURSIVE ExtractFrom(_, _, _)
ExtractFrom(content, startIdx, sectionNum) ==
    LET start == IndexFrom(content, PreserveStart, startIdx)
        end == IndexFrom(content, PreserveEnd, start)
    IN IF start = 0 \/ end = 0 THEN <<>>
       ELSE (SectionKey(sectionNum) :> SubSeq(content, start, end))
            @@ ExtractFrom(content, end + 1, sectionNum + 1)

\* extractPreservedSections(content): the map from section key to section
extractPreservedSections(content) == ExtractFrom(content, 1, 1)

\* The orders in which a range over a Go map may visit the keys.
Orders(keys) ==
    {o \in [1 .. Cardinality(keys) -> keys] :
        \A i, j \in 1 .. Cardinality(keys) : o[i] = o[j] => i = j}

\* fmt.Sprintf("Human-edited section '%s' was not preserved", marker)
Warning(key) == [section |-> key]

\* validatePreservedSections that stops at the first section it misses.
validatePreservedSections_FirstOnly(original, new) ==
    LET preservedSections == extractPreservedSections(original)
        missing == {k \in DOMAIN preservedSections : ~Contains(new, preservedSections[k])}
    IN IF missing = {} THEN {<<>>} ELSE {<<Warning(k)>> : k \in missing}

\* validatePreservedSections(originalContent, newContent): the lists of
\* warnings it may return, one for each order of the range over the map.
validatePreservedSections(original, new) ==
    LET preservedSections == extractPreservedSections(original)
        missing == {k \in DOMAIN preservedSections : ~Contains(new, preservedSections[k])}
    IN {[i \in 1 .. Cardinality(missing) |-> Warning(o[i])] : o \in Orders(missing)}

\* The text of the contents the managed document has in the orchestrator.
DocText(c) ==
    CASE c = "A" -> <<"a", PreserveStart, "r", PreserveEnd>>
      [] c = "B" -> <<"b">>
      [] c = "C" -> <<PreserveStart, "r", PreserveEnd, "c">>
      [] OTHER -> <<>>

\* handleAcceptAction that does not accept a document with warnings.
handleAcceptAction_Blocking(updated, d, orig) ==
    LET lists == IF orig.set /\ ~readCurrentReadme(d).err
                 THEN validatePreservedSections(DocText(orig.content), DocText(d.content))
                 ELSE {<<>>}
    IN [accepted |-> updated /\ lists = {<<>>},
        warnings |-> IF updated THEN lists ELSE {<<>>}]

\* handleAcceptAction(readmeUpdated) up to its question to the user: whether
\* the document is accepted, and the lists of warnings it may print.
handleAcceptAction(updated, d, orig) ==
    IF updated
    THEN [accepted |-> TRUE,
          warnings |-> IF orig.set /\ ~readCurrentReadme(d).err
                       THEN validatePreservedSections(DocText(orig.content),
                                                      DocText(d.content))
                       ELSE {<<>>}]
    ELSE [accepted |-> FALSE, warnings |-> {<<>>}]

-----------------------------------------------------------------------------
(* Idle values: what the variables of one part hold while a specification  *)
(* of another part runs.                                                    *)

NoResult == [FinalContent |-> <<>>, Conversation |-> <<>>]
NoOutcome == [ret |-> "none", why |-> "none", detail |-> <<>>]

\* No content handed to the protected-region engine, no registry built.
NoRegistry == [phase |-> "none"]

\* No AnimatedStatus was made.
NoStatus == [made |-> FALSE]

\* No foreach sub-command runs.
NoForeach == [made |-> FALSE]

LibIdle ==
    /\ originalContent = <<>> /\ newContent = <<>> /\ registry = NoRegistry
    /\ status = NoStatus /\ foreach = NoForeach

AgentIdle ==
    /\ doc = Absent /\ originalReadmeContent = Nil /\ docAtStart = Absent
    /\ mode = "none" /\ pc = "idle" /\ prompt = "none"
    /\ result = NoResult /\ readmeUpdated = FALSE
    /\ outcome = NoOutcome /\ handledAs = "none"
    /\ execs = 0 /\ backups = 0 /\ restores = 0 /\ storeOp = "none"
    /\ warnings = <<>>

-----------------------------------------------------------------------------
(* The sandbox specification: a package tree with links in it, and the     *)
(* model calling the three file tools.                                      *)

NoCall == [tool |-> "none", path |-> <<>>, content |-> "", result |-> ResultContent("")]

SandboxIdle ==
    /\ fs = BaseTree /\ packageRoot = RealRoot /\ last = NoCall /\ calls = 0

InitSandbox ==
    /\ \E la \in TargetsInAllowed, lr \in TargetsInRoot, lb \in TargetsBack,
          lroot \in TargetsToRoot, readme \in BOOLEAN :
          \* no path of UserPaths goes through more than one of these links
          /\ Cardinality({x \in {<<1, la>>, <<2, lr>>, <<3, lb>>} : x[2] # NoLink}) <= 1
          /\ fs = InitialTree(la, lr, lb, lroot, readme)
          /\ packageRoot \in {RealRoot} \cup (IF lroot # NoLink THEN {LinkToRoot} ELSE {})
    /\ last = NoCall
    /\ calls = 0
    /\ AgentIdle
    /\ LibIdle

ListDirectory ==
    /\ calls < MaxCalls
    /\ \E p \in ToolArguments :
          last' = [tool |-> "list_directory", path |-> p, content |-> "",
                   result |-> listDirectoryHandler(fs, packageRoot, p)]
    /\ calls' = calls + 1
    /\ UNCHANGED <<fs, packageRoot>>
    /\ UNCHANGED <<agentVars, libVars>>

ReadFile ==
    /\ calls < MaxCalls
    /\ \E p \in ToolArguments :
          last' = [tool |-> "read_file", path |-> p, content |-> "",
                   result |-> readFileHandler(fs, packageRoot, p)]
    /\ calls' = calls + 1
    /\ UNCHANGED <<fs, packageRoot>>
    /\ UNCHANGED <<agentVars, libVars>>

WriteFile ==
    /\ calls < MaxCalls
    /\ \E p \in ToolArguments, c \in WriteContents :
          LET w == writeFileHandler(fs, packageRoot, p, c) IN
          /\ last' = [tool |-> "write_file", path |-> p, content |-> c,
                      result |-> w.res]
          /\ fs' = w.fs
    /\ calls' = calls + 1
    /\ UNCHANGED packageRoot
    /\ UNCHANGED <<agentVars, libVars>>

NextSandbox == ListDirectory \/ ReadFile \/ WriteFile

SpecSandbox == InitSandbox /\ [][NextSandbox]_vars

\* A call of write_file of the copy of the tools without validatePathInRoot.
WriteFileOld ==
    /\ calls < MaxCalls
    /\ \E p \in ToolArguments, c \in WriteContents :
          LET w == writeFileHandlerOld(fs, packageRoot, p, c) IN
          /\ last' = [tool |-> "write_file (older copy)", path |-> p, content |-> c,
                      result |-> w.res]
          /\ fs' = w.fs
    /\ calls' = calls + 1
    /\ UNCHANGED packageRoot
    /\ UNCHANGED <<agentVars, libVars>>

\* The calls of write_file, of either copy of the tools.
NextWrite == WriteFile \/ WriteFileOld

SpecWrite == InitSandbox /\ [][NextWrite]_vars

-----------------------------------------------------------------------------
(* Properties of the sandbox *)

FileTools == {"list_directory", "read_file", "write_file"}

\* A step that is a tool call.
IsCall == calls' = calls + 1

\* A file exists at p before or after the step.
FileAt(p) == Node(fs, p).kind = "file" \/ Node(fs', p).kind = "file"

\* Where a path of the package leads: the node the operating system reaches
\* through every link, or, when a component is missing, the place the missing
\* components would be created.  where is <<>> when resolution fails.
Target(f, root, userPath) ==
    LET r == OSWalk(f, Join(root, userPath)) IN
    CASE r.err = "none" -> [exists |-> TRUE, creatable |-> FALSE, where |-> r.path]
      [] r.err = "notexist" ->
           [exists |-> FALSE, creatable |-> r.rest = <<>>, where |-> r.path \o r.rest]
      [] OTHER -> [exists |-> FALSE, creatable |-> FALSE, where |-> <<>>]

Resolvable(f, root, userPath) == OSWalk(f, Join(root, userPath)).err \in {"none", "notexist"}

HasParentSegment(userPath) == \E i \in 1 .. Len(userPath) : userPath[i] = ".."

\* The place validatePathInRoot compares with the root: the resolved path of
\* an existing target, the cleaned path of a missing one.
ComparedPlace(f, root, userPath) ==
    LET full == Join(root, userPath)
        r == OSWalk(f, full)
    IN IF r.err = "none" THEN r.path ELSE full

\* C1: a write_file call whose target lies outside <root>/_dev/build/docs,
\* also one reached through a link that sits inside that directory, is denied,
\* and no step of any tool creates or modifies a file outside it.
C1_WritesOnlyInAllowedDir ==
    [][ IsCall =>
          /\ \A p \in (DOMAIN fs) \cup (DOMAIN fs') :
                (FileAt(p) /\ ~IsPrefix(RealAllowed, p)) => Node(fs', p) = Node(fs, p)
          /\ ( /\ last'.tool = "write_file"
               /\ Resolvable(fs, packageRoot, last'.path)
               /\ ~IsPrefix(RealAllowed, Target(fs, packageRoot, last'.path).where) )
             => Denied(last'.result) ]_vars

\* C2: a path that leads through a symbolic link to a place outside the
\* project root is denied by list_directory, read_file and write_file; for
\* write_file also when the target does not exist yet and would be created
\* outside the root.
LeadsOutsideRoot(f, root, tool, userPath) ==
    LET t == Target(f, root, userPath) IN
    /\ IsPrefix(root, Join(root, userPath))
    /\ ~HasParentSegment(userPath)
    /\ t.exists \/ (tool = "write_file" /\ t.creatable)
    /\ ~IsPrefix(RealRoot, t.where)

C2_SymlinkEscapeDenied ==
    [][ (IsCall /\ LeadsOutsideRoot(fs, packageRoot, last'.tool, last'.path))
          => Denied(last'.result) ]_vars

\* C3 as stated: every path with a ".." segment is denied for read_file,
\* list_directory and write_file.
C3_ParentSegmentDenied ==
    (last.tool \in FileTools /\ HasParentSegment(last.path)) => Denied(last.result)

\* C3 as amended: a path with ".." segments is denied for read_file,
\* list_directory and write_file when the place it names, after the lexical
\* clean and the resolution of the links of an existing target, is outside the
\* resolved project root.
C3_EscapingParentSegmentDenied ==
    [][ ( /\ IsCall
          /\ HasParentSegment(last'.path)
          /\ Resolvable(fs, packageRoot, last'.path)
          /\ ~IsPrefix(RealRoot, ComparedPlace(fs, packageRoot, last'.path)) )
          => Denied(last'.result) ]_vars

C3_Witness ==
    /\ last.tool = "read_file"
    /\ last.path = <<"..", "out", "secret">>
    /\ Denied(last.result)

\* C4: path resolution denies a path exactly when the relative path from the
\* resolved root to the resolved target (the cleaned target when it does not
\* exist) begins with a parent-directory segment, that is, exactly when that
\* place is outside the resolved root; a path that stays inside is not denied.
\* (list_directory denies for no other reason than path resolution.)
C4_DeniedIffOutsideRoot ==
    [][ ( /\ IsCall
          /\ last'.tool = "list_directory"
          /\ Resolvable(fs, packageRoot, last'.path) )
          => ( Denied(last'.result)
               <=> ~IsPrefix(RealRoot, ComparedPlace(fs, packageRoot, last'.path)) ) ]_vars

\* The generated-artifact subtree and its whitelisted part.
GeneratedDocs == RealRoot \o <<"docs">>
KnowledgeBase == GeneratedDocs \o <<"knowledge_base">>

\* The call reads or lists a place in <root>/docs that is not in
\* docs/knowledge_base.
ReadsGeneratedDocs(f, root, tool, userPath) ==
    LET t == Target(f, root, userPath) IN
    /\ tool \in {"list_directory", "read_file"}
    /\ userPath # MalformedArguments
    /\ t.exists
    /\ IsPrefix(GeneratedDocs, t.where)
    /\ ~IsPrefix(KnowledgeBase, t.where)

\* C17: a read_file or list_directory call whose target is in <root>/docs
\* and not under docs/knowledge_base gets an error and no content, however
\* its path is spelled, and no listing shows the docs directory; a file of
\* docs/knowledge_base is read.
C17_GeneratedDocsExcluded ==
    [][ IsCall =>
          /\ ReadsGeneratedDocs(fs, packageRoot, last'.tool, last'.path)
               => (last'.result.Error # "" /\ last'.result.Content = "")
          /\ "docs" \notin last'.result.Entries
          /\ (last'.tool = "read_file" /\ last'.path = <<"docs", "knowledge_base", "k">>)
               => last'.result = ResultContent("k") ]_vars

\* The errors of the file system the file tools report.
FileSystemErrors ==
    {"failed to read directory", "failed to read file",
     "failed to resolve allowed directory", "failed to create directory",
     "failed to write file"}

\* C18: every call of a file tool returns a ToolResult that has a content or
\* an error and never both: arguments that do not parse, a denial of the
\* sandbox and an error of the file system give an error and no content.
C18_ContentOrErrorNeverBoth ==
    last.tool # "none" =>
        /\ last.tool \in FileTools
        /\ DOMAIN last.result = {"Content", "Error", "Entries"}
        /\ last.result.Error \in
             {"", "failed to parse arguments", AccessDenied} \cup FileSystemErrors
        /\ last.result.Error # ""
             => (last.result.Content = "" /\ last.result.Entries = {})
        /\ last.path = MalformedArguments
             => last.result = ResultError("failed to parse arguments")

\* A read of a file in the excluded subtree: an error, and no content.
C18_Witness ==
    /\ last.tool = "read_file" /\ last.path = <<"docs", "README">>
    /\ last.result = ResultError(AccessDenied)

-----------------------------------------------------------------------------
(* The task orchestrator *)

\* What the model may answer in one execution, and the conversation the
\* result may carry.
TaskReplies ==
    { <<>>,
      <<"done">>,
      <<"I", "failed", "to", "write">>,
      <<"I", "reached", "the", "maximum", "response", "length">>,
      <<"I", "failed", "to", "finish", ",", "MAXIMUM", "response", "length">> }

ToolResultEntry(c) == [Type |-> "tool_result", Content |-> c]

TaskConversations ==
    { <<>>,
      << ToolResultEntry(<<"Successfully", "wrote">>) >>,
      << ToolResultEntry(<<"access", "denied", ":">>) >> }

\* Agent.ExecuteTask(ctx, prompt): the call fails, or the model's tool calls
\* have written the document any number of times (the last write stays) and
\* a result comes back.  A failed call is taken to have run no tool.
Turns(d) ==
    {[err |-> TRUE, doc |-> d, result |-> NoResult]}
    \cup {[err |-> FALSE, doc |-> d2,
           result |-> [FinalContent |-> r, Conversation |-> c]] :
            d2 \in {d} \cup {DocWriteFile(d, x) : x \in DocContents},
            r \in TaskReplies, c \in TaskConversations}

\* What the task returns: nil or an error, the return statement it came from
\* and, where the model keeps it, the error's message.
Outcome(ret, why) == [ret |-> ret, why |-> why, detail |-> <<>>]

\* The task returns to its caller.
Return(ret, why) ==
    /\ pc' = "done"
    /\ outcome' = Outcome(ret, why)

\* return fmt.Errorf(format, text) with a format that ends in %s: the error's
\* message is the words of the format followed by the text.
ReturnErrorf(why, format, text) ==
    /\ pc' = "done"
    /\ outcome' = [ret |-> "error", why |-> why, detail |-> format \o text]

\* restoreOriginalReadme() as a step of an action
Restore ==
    /\ doc' = restoreOriginalReadme(doc, originalReadmeContent)
    /\ restores' = restores + 1

InitTask ==
    /\ SandboxIdle
    /\ LibIdle
    /\ doc \in InitialDocs /\ docAtStart = doc
    /\ originalReadmeContent = Nil
    /\ mode = "none" /\ pc = "start" /\ prompt = "none"
    /\ result = NoResult /\ readmeUpdated = FALSE
    /\ outcome = NoOutcome /\ handledAs = "none"
    /\ execs = 0 /\ backups = 0 /\ restores = 0 /\ storeOp = "none"
    /\ warnings = <<>>

\* UpdateDocumentation(ctx, nonInteractive) up to the call of the mode's loop
UpdateDocumentation ==
    /\ pc = "start"
    /\ \E nonInteractive \in BOOLEAN, manifestOk \in BOOLEAN :
          IF ~manifestOk
          THEN /\ Return("error", "manifest")
               /\ UNCHANGED <<originalReadmeContent, backups, mode, prompt>>
          ELSE /\ originalReadmeContent' = backupOriginalReadme(doc, originalReadmeContent)
               /\ backups' = backups + 1
               /\ prompt' = "initial"
               /\ mode' = IF nonInteractive THEN "unattended" ELSE "interactive"
               /\ pc' = IF nonInteractive THEN "n_first" ELSE "i_exec"
               /\ UNCHANGED outcome
    /\ UNCHANGED <<doc, result, readmeUpdated, handledAs, docAtStart, execs,
                   restores, storeOp, warnings>>
    /\ UNCHANGED <<sandboxVars, libVars>>

\* ModifyDocumentation(ctx, nonInteractive, modifyPrompt) up to the call of the
\* mode's loop.  input is what tui.AskTextArea returns when it is asked.
ModifyDocumentation ==
    /\ pc = "start"
    /\ \E nonInteractive \in BOOLEAN, modifyPrompt \in {"", "text"},
          input \in {"text", "empty", "cancelled", "failed"} :
          IF ~doc.exists
          THEN /\ Return("error", "no_document")
               /\ UNCHANGED <<originalReadmeContent, backups, mode, prompt>>
          ELSE /\ originalReadmeContent' = backupOriginalReadme(doc, originalReadmeContent)
               /\ backups' = backups + 1
               /\ mode' = IF nonInteractive THEN "unattended" ELSE "interactive"
               /\ CASE modifyPrompt = "" /\ nonInteractive ->
                         Return("error", "no_modify_prompt") /\ UNCHANGED prompt
                    [] modifyPrompt = "" /\ ~nonInteractive /\ input = "cancelled" ->
                         Return("nil", "modify_cancelled") /\ UNCHANGED prompt
                    [] modifyPrompt = "" /\ ~nonInteractive /\ input = "failed" ->
                         Return("error", "prompt_failed") /\ UNCHANGED prompt
                    [] modifyPrompt = "" /\ ~nonInteractive /\ input = "empty" ->
                         Return("error", "no_instructions") /\ UNCHANGED prompt
                    [] OTHER ->
                         /\ prompt' = "revision"
                         /\ pc' = IF nonInteractive THEN "n_first" ELSE "i_exec"
                         /\ UNCHANGED outcome
    /\ UNCHANGED <<doc, result, readmeUpdated, handledAs, docAtStart, execs,
                   restores, storeOp, warnings>>
    /\ UNCHANGED <<sandboxVars, libVars>>

\* "LLM agent encountered an error: %s" up to the verb
LLMErrorFormat == <<"LLM", "agent", "encountered", "an", "error", ":", " ">>

\* The same with the check of the document before the check of the reply
UnattendedTail_UpdateFirst(d, res, label) ==
    IF handleReadmeUpdate(d, originalReadmeContent).updated
    THEN handledAs' = label /\ Return("nil", "updated") /\ UNCHANGED prompt
    ELSE IF isTaskResultError(res.FinalContent, res.Conversation)
         THEN /\ handledAs' = "ErrorLike"
              /\ ReturnErrorf("llm_error", LLMErrorFormat, res.FinalContent)
              /\ UNCHANGED prompt
         ELSE handledAs' = label /\ pc' = "n_second" /\ prompt' = "specific"
              /\ UNCHANGED outcome

\* runNonInteractiveMode from its check of the reply for errors to the second
\* attempt: d is the document and res the result it looks at, label what the
\* reply was handled as when it is no error.
UnattendedTail(d, res, label) ==
    IF isTaskResultError(res.FinalContent, res.Conversation)
    THEN /\ handledAs' = "ErrorLike"
         /\ ReturnErrorf("llm_error", LLMErrorFormat, res.FinalContent)
         /\ UNCHANGED prompt
    ELSE /\ handledAs' = label
         /\ IF handleReadmeUpdate(d, originalReadmeContent).updated
            THEN Return("nil", "updated") /\ UNCHANGED prompt
            ELSE pc' = "n_second" /\ prompt' = "specific" /\ UNCHANGED outcome

\* runNonInteractiveMode: the first attempt
UnattendedFirst ==
    /\ pc = "n_first"
    /\ \E t \in Turns(doc), manifestOk \in BOOLEAN :
          /\ doc' = t.doc
          /\ IF t.err
             THEN Return("error", "transport") /\ UNCHANGED <<result, handledAs, prompt>>
             ELSE /\ result' = t.result
                  /\ IF isTokenLimitMessage(t.result.FinalContent)
                     THEN /\ handledAs' = "TokenLimitHit"
                          /\ IF manifestOk
                             THEN pc' = "n_section" /\ prompt' = "section" /\ UNCHANGED outcome
                             ELSE Return("error", "manifest") /\ UNCHANGED prompt
                     ELSE UnattendedTail(t.doc, t.result, "Success")
    /\ execs' = execs + 1
    /\ UNCHANGED <<originalReadmeContent, mode, readmeUpdated, docAtStart, backups,
                   restores, storeOp, warnings>>
    /\ UNCHANGED <<sandboxVars, libVars>>

\* runNonInteractiveMode: the section-based retry after a token-limit reply.
\* The result of the retry is dropped; the checks that follow read the first
\* result again.
UnattendedSectionOn(t) ==
    /\ pc = "n_section"
    /\ t \in Turns(doc)
    /\ doc' = t.doc
    /\ CASE t.err ->
              Return("error", "transport") /\ UNCHANGED <<handledAs, prompt>>
         [] ~t.err /\ handleReadmeUpdate(t.doc, originalReadmeContent).updated ->
              Return("nil", "updated") /\ UNCHANGED <<handledAs, prompt>>
         [] OTHER -> UnattendedTail(t.doc, result, handledAs)
    /\ execs' = execs + 1
    /\ UNCHANGED <<originalReadmeContent, mode, result, readmeUpdated, docAtStart,
                   backups, restores, storeOp, warnings>>
    /\ UNCHANGED <<sandboxVars, libVars>>

\* t is what the execution of the section-based prompt comes back with.
UnattendedSection == \E t \in Turns(doc) : UnattendedSectionOn(t)

\* A second attempt that asks again for as long as the document is not updated
UnattendedSecond_Repeats ==
    /\ pc = "n_second"
    /\ \E t \in Turns(doc) :
          /\ doc' = t.doc
          /\ CASE t.err -> Return("error", "transport")
               [] ~t.err /\ handleReadmeUpdate(t.doc, originalReadmeContent).updated ->
                    Return("nil", "updated")
               [] OTHER -> UNCHANGED <<pc, outcome>>
    /\ execs' = execs + 1
    /\ UNCHANGED <<originalReadmeContent, mode, prompt, result, readmeUpdated,
                   handledAs, docAtStart, backups, restores, storeOp, warnings>>
    /\ UNCHANGED <<sandboxVars, libVars>>

\* runNonInteractiveMode: the second attempt
UnattendedSecondOn(t) ==
    /\ pc = "n_second"
    /\ t \in Turns(doc)
    /\ doc' = t.doc
    /\ CASE t.err -> Return("error", "transport")
         [] ~t.err /\ handleReadmeUpdate(t.doc, originalReadmeContent).updated ->
              Return("nil", "updated")
         [] OTHER -> Return("error", "no_update")
    /\ execs' = execs + 1
    /\ UNCHANGED <<originalReadmeContent, mode, prompt, result, readmeUpdated,
                   handledAs, docAtStart, backups, restores, storeOp, warnings>>
    /\ UNCHANGED <<sandboxVars, libVars>>

\* t is what the execution of the explicit directive comes back with.
UnattendedSecond == \E t \in Turns(doc) : UnattendedSecondOn(t)

\* runInteractiveMode: one execution and the classification of its reply
InteractiveRound ==
    /\ pc = "i_exec"
    /\ \E t \in Turns(doc), manifestOk \in BOOLEAN :
          /\ doc' = t.doc
          /\ IF t.err
             THEN /\ Return("error", "transport")
                  /\ UNCHANGED <<result, handledAs, prompt, readmeUpdated>>
             ELSE /\ result' = t.result
                  /\ CASE isTokenLimitMessage(t.result.FinalContent) ->
                            /\ handledAs' = "TokenLimitHit"
                            /\ UNCHANGED readmeUpdated
                            /\ IF manifestOk
                               THEN pc' = "i_exec" /\ prompt' = "section" /\ UNCHANGED outcome
                               ELSE Return("error", "manifest") /\ UNCHANGED prompt
                       [] ~isTokenLimitMessage(t.result.FinalContent)
                            /\ isTaskResultError(t.result.FinalContent, t.result.Conversation) ->
                            /\ handledAs' = "ErrorLike"
                            /\ pc' = "i_error"
                            /\ UNCHANGED <<readmeUpdated, prompt, outcome>>
                       [] OTHER ->
                            /\ handledAs' = "Success"
                            /\ readmeUpdated' =
                                 displayReadmeIfUpdated(t.doc, originalReadmeContent)
                            /\ pc' = "i_action"
                            /\ UNCHANGED <<prompt, outcome>>
    /\ UNCHANGED <<originalReadmeContent, mode, docAtStart, backups, restores, storeOp, warnings>>
    /\ UNCHANGED <<sandboxVars, libVars>>

\* The rounds of the loop that the execution counter still tells apart
InteractiveExec ==
    /\ execs < MaxExecs
    /\ InteractiveRound
    /\ execs' = execs + 1

\* An error decision whose 'Exit' leaves the document as the model wrote it
InteractiveErrorOn_NoRestore(answer) ==
    /\ pc = "i_error"
    /\    CASE answer = "Try again" ->
                 /\ prompt' = "retry" /\ pc' = "i_exec"
                 /\ UNCHANGED <<doc, restores, outcome>>
            [] answer = "Exit" ->
                 /\ Return("error", "user_exit")
                 /\ UNCHANGED <<doc, restores, prompt>>
            [] OTHER ->
                 /\ Return("error", "prompt_failed")
                 /\ UNCHANGED <<doc, restores, prompt>>
    /\ UNCHANGED <<originalReadmeContent, mode, result, readmeUpdated, handledAs,
                   docAtStart, execs, backups, storeOp, warnings>>
    /\ UNCHANGED <<sandboxVars, libVars>>

\* handleInteractiveError and what runInteractiveMode does with its answer.
\* The prompt "retry" is the revision prompt built around the note that the
\* previous attempt encountered an error.
InteractiveErrorOn(answer) ==
    /\ pc = "i_error"
    /\    CASE answer = "Try again" ->
                 /\ prompt' = "retry" /\ pc' = "i_exec"
                 /\ UNCHANGED <<doc, restores, outcome>>
            [] answer = "Exit" ->
                 /\ Restore
                 /\ Return("error", "user_exit")
                 /\ UNCHANGED prompt
            [] OTHER ->
                 /\ Return("error", "prompt_failed")
                 /\ UNCHANGED <<doc, restores, prompt>>
    /\ UNCHANGED <<originalReadmeContent, mode, result, readmeUpdated, handledAs,
                   docAtStart, execs, backups, storeOp, warnings>>
    /\ UNCHANGED <<sandboxVars, libVars>>

\* answer is what tui.AskOne returns: a choice, the user's cancellation or
\* another failure of the prompt.
InteractiveError ==
    \E answer \in {"Try again", "Exit", "cancelled", "failed"} :
        InteractiveErrorOn(answer)

\* getUserAction and handleUserAction, up to the next question to the user
InteractiveActionOn(action) ==
    /\ pc = "i_action"
    /\    LET accept == handleAcceptAction(readmeUpdated, doc, originalReadmeContent) IN
          CASE action = "Accept and finalize" /\ accept.accepted ->
                 /\ \E printed \in accept.warnings : warnings' = warnings \o printed
                 /\ Return("nil", "accepted")
                 /\ UNCHANGED <<doc, restores>>
            [] action = "Accept and finalize" /\ ~accept.accepted ->
                 /\ pc' = "i_notupdated"
                 /\ UNCHANGED <<doc, restores, outcome, warnings>>
            [] action = "Request changes" ->
                 /\ pc' = "i_changes"
                 /\ UNCHANGED <<doc, restores, outcome, warnings>>
            [] action = "Cancel" ->
                 /\ Restore
                 /\ Return("nil", "cancelled")
                 /\ UNCHANGED warnings
            [] OTHER ->
                 /\ Return("error", "prompt_failed")
                 /\ UNCHANGED <<doc, restores, warnings>>
    /\ UNCHANGED <<originalReadmeContent, mode, prompt, result, readmeUpdated,
                   handledAs, docAtStart, execs, backups, storeOp>>
    /\ UNCHANGED <<sandboxVars, libVars>>

InteractiveAction ==
    \E action \in {"Accept and finalize", "Request changes", "Cancel",
                   "cancelled", "failed"} :
        InteractiveActionOn(action)

\* handleAcceptAction when the document was not updated: the second question
InteractiveNotUpdated ==
    /\ pc = "i_notupdated"
    /\ \E choice \in {"Try again", "Exit anyway", "cancelled", "failed"} :
          CASE choice = "Try again" ->
                 /\ prompt' = "revision" /\ pc' = "i_exec"
                 /\ UNCHANGED <<doc, restores, outcome>>
            [] choice = "Exit anyway" ->
                 /\ Restore
                 /\ Return("nil", "exit_anyway")
                 /\ UNCHANGED prompt
            [] OTHER ->
                 /\ Return("error", "prompt_failed")
                 /\ UNCHANGED <<doc, restores, prompt>>
    /\ UNCHANGED <<originalReadmeContent, mode, result, readmeUpdated, handledAs,
                   docAtStart, execs, backups, storeOp, warnings>>
    /\ UNCHANGED <<sandboxVars, libVars>>

\* handleRequestChanges and what runInteractiveMode does with its answer
InteractiveChangesOn(input) ==
    /\ pc = "i_changes"
    /\    CASE input = "text" ->
                 prompt' = "revision" /\ pc' = "i_exec" /\ UNCHANGED outcome
            [] input \in {"empty", "cancelled"} ->
                 prompt' = "" /\ pc' = "i_exec" /\ UNCHANGED outcome
            [] OTHER ->
                 Return("error", "prompt_failed") /\ UNCHANGED prompt
    /\ UNCHANGED <<doc, originalReadmeContent, mode, result, readmeUpdated, handledAs,
                   docAtStart, execs, backups, restores, storeOp, warnings>>
    /\ UNCHANGED <<sandboxVars, libVars>>

InteractiveChanges ==
    \E input \in {"text", "empty", "cancelled", "failed"} :
        InteractiveChangesOn(input)

Next ==
    \/ UpdateDocumentation
    \/ ModifyDocumentation
    \/ UnattendedFirst
    \/ UnattendedSection
    \/ UnattendedSecond
    \/ InteractiveExec
    \/ InteractiveError
    \/ InteractiveAction
    \/ InteractiveNotUpdated
    \/ InteractiveChanges

Spec == InitTask /\ [][Next]_vars

\* The loop of runInteractiveMode has no counter of its own: the rounds after
\* the MaxExecs-th are the same code, with the model's counter left at its
\* bound.
InteractiveExecAgain ==
    /\ execs = MaxExecs
    /\ InteractiveRound
    /\ UNCHANGED execs

NextLoop == Next \/ InteractiveExecAgain

\* The task as a running program: a task that can take a step takes one.
SpecLoop == InitTask /\ [][NextLoop]_vars /\ WF_vars(NextLoop)

-----------------------------------------------------------------------------
(* The document-store specification: one backup, then writes of the        *)
(* document by the tools and calls of restoreOriginalReadme in any order.  *)

InitStore ==
    /\ SandboxIdle
    /\ LibIdle
    /\ doc \in InitialDocs /\ docAtStart = doc
    /\ originalReadmeContent = Nil
    /\ mode = "none" /\ pc = "store" /\ prompt = "none"
    /\ result = NoResult /\ readmeUpdated = FALSE
    /\ outcome = NoOutcome /\ handledAs = "none"
    /\ execs = 0 /\ backups = 0 /\ restores = 0 /\ storeOp = "none"
    /\ warnings = <<>>

StoreFrame ==
    /\ UNCHANGED <<mode, pc, prompt, result, readmeUpdated, outcome, handledAs,
                   docAtStart, warnings>>
    /\ UNCHANGED <<sandboxVars, libVars>>

StoreBackup ==
    /\ pc = "store" /\ backups = 0
    /\ originalReadmeContent' = backupOriginalReadme(doc, originalReadmeContent)
    /\ backups' = 1
    /\ storeOp' = "backup"
    /\ UNCHANGED <<doc, execs, restores>>
    /\ StoreFrame

\* One execution whose tools write the document.
StoreWrite ==
    /\ pc = "store" /\ backups = 1 /\ execs < MaxStoreOps
    /\ \E c \in DocContents : doc' = DocWriteFile(doc, c)
    /\ execs' = execs + 1
    /\ storeOp' = "write"
    /\ UNCHANGED <<originalReadmeContent, backups, restores>>
    /\ StoreFrame

StoreRestore ==
    /\ pc = "store" /\ backups = 1 /\ restores < MaxStoreOps
    /\ Restore
    /\ storeOp' = "restore"
    /\ UNCHANGED <<originalReadmeContent, backups, execs>>
    /\ StoreFrame

NextStore == StoreBackup \/ StoreWrite \/ StoreRestore

SpecStore == InitStore /\ [][NextStore]_vars

-----------------------------------------------------------------------------
(* Properties of the document store and of the orchestrator *)

\* The document is as it was when the task started.
SameAsStart == doc.exists = docAtStart.exists /\ doc.content = docAtStart.content

\* C5: after the user's Cancel the document is in its pre-task state: absent
\* if there was none, with its content C if it existed with content C.
C5_CancelRestoresPreTaskState ==
    (pc = "done" /\ outcome.why = "cancelled") => SameAsStart

\* C6: when an unattended task ends Failed (an ErrorLike reply, or no change
\* of the document after the last attempt) the document has been restored to
\* the backup when the error is returned.
C6_FailedRestoresBackup ==
    (pc = "done" /\ mode = "unattended" /\ outcome.why \in {"llm_error", "no_update"})
        => SameAsStart

\* C7: when a call of the model transport fails, on any attempt and in either
\* mode, the loop ends and the document is restored to the backup.
C7_TransportFailureRestoresBackup ==
    (pc = "done" /\ outcome.why = "transport") => SameAsStart

\* C8: every call of restoreOriginalReadme leaves the backup's content in the
\* document, or no document when no backup was captured, and a call that
\* follows another one changes nothing.
AfterRestore ==
    IF originalReadmeContent.set THEN DocFile(originalReadmeContent.content) ELSE Absent

C8_RestoreIdempotent ==
    [][ (restores' = restores + 1) =>
          /\ doc' = AfterRestore
          /\ (storeOp = "restore" => doc' = doc) ]_vars

C8_Witness == storeOp = "restore" /\ restores = 3 /\ execs = 1 /\ originalReadmeContent.set

\* C9: the backup is taken once per task, before the first execution, it is
\* the document of that moment (its content, or nil for none), and no step
\* after it changes it.
SnapshotOf(d) == IF d.exists THEN Some(d.content) ELSE Nil

C9_BackupOnceAndImmutable ==
    [][ /\ pc # "start" => originalReadmeContent' = originalReadmeContent
        /\ backups' <= 1
        /\ execs' > 0 => backups' = 1
        /\ (backups' = 1 /\ (docAtStart.readable \/ ~docAtStart.exists))
             => originalReadmeContent' = SnapshotOf(docAtStart) ]_vars

C9_Witness ==
    /\ pc = "done" /\ outcome.why = "cancelled" /\ execs >= 2 /\ restores = 1
    /\ originalReadmeContent = Some("A")

\* C10: a reply with a length-limit phrase is handled as TokenLimitHit and
\* is never classified or handled as ErrorLike, in either mode, also when it
\* has a failure phrase as well.
C10_TokenLimitNeverError ==
    /\ handledAs = "ErrorLike" => ~isTokenLimitMessage(result.FinalContent)
    /\ (execs > 0 /\ isTokenLimitMessage(result.FinalContent))
         => /\ handledAs = "TokenLimitHit"
            /\ ~isTaskResultError(result.FinalContent, result.Conversation)

C10_Witness ==
    /\ pc = "n_second" /\ handledAs = "TokenLimitHit"
    /\ \E ind \in errorIndicators : Contains(ToLower(result.FinalContent), ToLower(ind))
    /\ result.Conversation = <<>>


\* C13: unattended, no document at the start: when the first reply is empty
\* and the first execution has written a document that is not empty, the
\* task returns success there, after that one execution.
C13_EmptyReplyWithWriteSucceeds ==
    [][ ( /\ pc = "n_first" /\ ~doc.exists /\ ~docAtStart.exists
          /\ doc'.exists /\ doc'.content # ""
          /\ IsBlank(result'.FinalContent) )
        => ( /\ pc' = "done"
             /\ outcome' = Outcome("nil", "updated")
             /\ execs' = 1 ) ]_vars

C13_Witness ==
    /\ pc = "done" /\ mode = "unattended" /\ ~docAtStart.exists
    /\ execs = 1 /\ outcome = Outcome("nil", "updated")
    /\ result.FinalContent = <<>>
    /\ result.Conversation = << ToolResultEntry(<<"Successfully", "wrote">>) >>
    /\ doc = DocFile("B")

\* C14: unattended, the document at the start has one protected region and
\* the task leaves a document without the region's text: the task returns
\* success and the caller has got exactly one preservation warning.
C14_UnattendedPreservationWarning ==
    ( /\ pc = "done" /\ mode = "unattended"
      /\ docAtStart = DocFile("A") /\ doc = DocFile("B")
      /\ execs > 0 /\ outcome.why \notin {"transport", "llm_error", "manifest"} )
    => (outcome.ret = "nil" /\ Len(warnings) = 1)

\* C16: an updated document the user accepts is accepted, with warnings or
\* without: the task ends there with success, the document stays as it is and
\* nothing is restored.
C16_WarningsNeverBlockAcceptance ==
    [][ /\ (pc = "i_action" /\ readmeUpdated) => pc' # "i_notupdated"
        /\ (pc = "i_action" /\ pc' = "done" /\ outcome'.why = "accepted")
             => ( /\ readmeUpdated
                  /\ outcome'.ret = "nil"
                  /\ doc' = doc /\ restores' = restores
                  /\ doc'.content # originalReadmeContent.content ) ]_vars

C16_Witness ==
    /\ pc = "done" /\ outcome = Outcome("nil", "accepted")
    /\ originalReadmeContent = Some("A") /\ doc = DocFile("B")
    /\ warnings = <<Warning(SectionKey(1))>>
    /\ restores = 0

\* A step of the interactive loop in which the user-interaction surface
\* returns its cancellation signal, at one of the three prompts.
CancelSignalled ==
    \/ InteractiveActionOn("cancelled")
    \/ InteractiveErrorOn("cancelled")
    \/ InteractiveChangesOn("cancelled")

\* C21: a cancellation signal at any prompt of the interactive loop (action
\* selection, error decision, change-request input) is handled as the Cancel
\* action: the document is restored to the backup and the loop exits, with
\* no further prompt sent to the model.
C21_CancelSignalHandledAsCancel ==
    [][CancelSignalled =>
         /\ pc' = "done"
         /\ doc' = restoreOriginalReadme(doc, originalReadmeContent)]_vars

\* A round of the interactive loop whose reply is classified as an error
ErrorLikeReply ==
    /\ pc = "i_exec" /\ execs' = execs + 1 /\ outcome'.why # "transport"
    /\ isTaskResultError(result'.FinalContent, result'.Conversation)

\* C25: in interactive mode a reply classified as an error leads to a user
\* decision before anything else is executed; 'Exit' restores the backup and
\* ends the task with an error, 'Try again' goes back to the execution with
\* the prompt that carries the retry note.
C25_InteractiveErrorAsksUser ==
    [][ /\ ErrorLikeReply => pc' = "i_error"
        /\ InteractiveErrorOn("Exit") =>
              /\ pc' = "done" /\ outcome'.ret = "error"
              /\ doc' = restoreOriginalReadme(doc, originalReadmeContent)
        /\ InteractiveErrorOn("Try again") =>
              /\ pc' = "i_exec" /\ prompt' = "retry"
              /\ execs' = execs /\ doc' = doc ]_vars

\* An error reply, 'Try again', a second error reply that wrote the document,
\* then 'Exit'.
C25_Witness ==
    /\ pc = "done" /\ outcome = Outcome("error", "user_exit")
    /\ handledAs = "ErrorLike" /\ prompt = "retry"
    /\ execs = 2 /\ restores = 1
    /\ docAtStart = DocFile("A") /\ doc = DocFile("A")

\* The loop is about to send the reduced-scope prompt on its own, after a
\* token-limit reply.
AutomaticRetryPending ==
    pc \in {"i_exec", "n_section"} /\ handledAs = "TokenLimitHit" /\ prompt = "section"

\* C22: a token-limit reply is retried automatically with the reduced-scope
\* prompt, and such retries are bounded in both modes: no task keeps
\* re-prompting on token-limit replies forever; it always comes back to the
\* user or to its end.
C22_TokenLimitRetriesBounded == []<>(~AutomaticRetryPending)

\* The calls of executeTaskWithLogging in runNonInteractiveMode: the first
\* attempt, the section-based retry and the second attempt.
UnattendedBudget == 3

UnattendedWithinBudget ==
    mode = "unattended" =>
        /\ execs <= UnattendedBudget
        /\ (pc = "n_second" => prompt = "specific")
        /\ (pc = "done" /\ SameAsStart) => outcome.ret = "error"

\* C23: unattended mode terminates within a fixed attempt budget: it sends at
\* most three prompts, the one after an unchanged document being the explicit
\* write directive, it always comes to its end, and a task that ends with
\* the document as it was at the start ends with an error.
C23_UnattendedTerminatesWithinBudget ==
    /\ []UnattendedWithinBudget
    /\ (mode = "unattended") ~> (pc = "done")

\* Three prompts sent, the last one the write directive, the document never
\* changed, and the task failed.
C23_Witness ==
    /\ mode = "unattended" /\ pc = "done" /\ execs = UnattendedBudget
    /\ prompt = "specific" /\ SameAsStart
    /\ outcome = Outcome("error", "no_update")

\* C24: in unattended mode a first reply classified as an error ends the task
\* at once with an error whose message contains the reply text: no further
\* prompt is sent, whether or not the document was changed during the turn.
C24_UnattendedErrorFailsImmediately ==
    ( /\ mode = "unattended" /\ execs >= 1
      /\ isTaskResultError(result.FinalContent, result.Conversation) )
    => /\ pc = "done" /\ execs = 1
       /\ outcome.ret = "error"
       /\ Contains(outcome.detail, result.FinalContent)

\* The first reply reports a failure although the turn wrote the document.
C24_Witness ==
    /\ mode = "unattended" /\ pc = "done" /\ execs = 1
    /\ isTaskResultError(result.FinalContent, result.Conversation)
    /\ docAtStart = Absent /\ doc = DocFile("B")
    /\ outcome.detail = LLMErrorFormat \o result.FinalContent

\* A retry of the unattended mode, the section-based one or the one with the
\* explicit directive, whose reply t would be classified as an error
RetryWithErrorLikeReply(t) ==
    /\ UnattendedSectionOn(t) \/ UnattendedSecondOn(t)
    /\ ~t.err
    /\ isTaskResultError(t.result.FinalContent, t.result.Conversation)

\* C29: unattended mode classifies the reply to every prompt it executes, the
\* replies to the token-limit retry and to the explicit directive included:
\* a retry whose reply is an error ends the task with an error, whatever
\* the check of the document says.
C29_UnattendedClassifiesRetries ==
    [][\A t \in Turns(doc) :
          RetryWithErrorLikeReply(t) => (pc' = "done" /\ outcome'.ret = "error")]_vars

-----------------------------------------------------------------------------
(* The change check: checkReadmeUpdated and handleReadmeUpdate applied to   *)
(* a document and a backup drawn from bounded sets.                         *)

AllDocs ==
    {Absent} \cup {DocFile(c) : c \in DocContents}
             \cup {LockedFile(c) : c \in DocContents}

AllBackups == {Nil} \cup {Some(c) : c \in DocContents}

InitChanged ==
    /\ SandboxIdle
    /\ LibIdle
    /\ doc \in AllDocs /\ docAtStart = doc
    /\ originalReadmeContent \in AllBackups
    /\ mode = "none" /\ pc = "changed" /\ prompt = "none"
    /\ result = NoResult /\ readmeUpdated = FALSE
    /\ outcome = NoOutcome /\ handledAs = "none"
    /\ execs = 0 /\ backups = 0 /\ restores = 0 /\ storeOp = "none"
    /\ warnings = <<>>

ChangedFrame ==
    /\ UNCHANGED <<doc, originalReadmeContent, mode, prompt, result, outcome,
                   handledAs, docAtStart, execs, backups, restores, storeOp,
                   warnings>>
    /\ UNCHANGED <<sandboxVars, libVars>>

CheckReadmeUpdated ==
    /\ pc = "changed"
    /\ readmeUpdated' = checkReadmeUpdated(doc, originalReadmeContent)
    /\ pc' = "checked"
    /\ ChangedFrame

HandleReadmeUpdate ==
    /\ pc = "changed"
    /\ readmeUpdated' = handleReadmeUpdate(doc, originalReadmeContent).updated
    /\ pc' = "handled"
    /\ ChangedFrame

NextChanged == CheckReadmeUpdated \/ HandleReadmeUpdate

SpecChanged == InitChanged /\ [][NextChanged]_vars

\* The current content differs from the backup; with no backup, some content
\* exists now.  A document that is gone has no content.
DiffersFromBackup(d, orig) ==
    IF orig.set THEN ~d.exists \/ d.content # orig.content
    ELSE d.exists /\ d.content # ""

\* C26: the change check answers true exactly when the current content
\* differs from the backup or, with no backup, when some content exists now,
\* a backed-up document that was deleted or emptied included.  (Documents
\* that cannot be read are left out: their content is not known.)
C26_ChangedIffDiffersFromBackup ==
    (pc \in {"checked", "handled"} /\ (doc.exists => doc.readable))
    => (readmeUpdated <=> DiffersFromBackup(doc, originalReadmeContent))

-----------------------------------------------------------------------------
(* The classifier specification: one reply and one conversation, drawn     *)
(* from bounded sets, classified the way both loops classify a reply.      *)

\* Entries of a conversation.
MaxConversation == 6

ClassifyReplies ==
    { <<>>,
      <<" ", "\n">>,
      <<"done">>,
      <<"I", "failed", "to", "write">>,
      <<"Error", "occurred">>,
      <<"I", "reached", "the", "maximum", "response", "length">>,
      <<"I", "failed", "to", "finish", ",", "MAXIMUM", "response", "length">> }

ClassifyEntries ==
    { ToolResultEntry(<<"Successfully", "wrote">>),
      ToolResultEntry(<<"access", "denied", ":">>),
      ToolResultEntry(<<"read", "failed", ":", "then", "Completed", "successfully">>),
      [Type |-> "assistant", Content |-> <<"completed", "successfully">>] }

ClassifyConversations ==
    UNION {[1 .. n -> ClassifyEntries] : n \in 0 .. MaxConversation}

\* The classification of a reply in runNonInteractiveMode and in
\* runInteractiveMode: the test for a token-limit message comes first, then
\* isTaskResultError.
Classify(content, conversation) ==
    CASE isTokenLimitMessage(content) -> "TokenLimitHit"
      [] isTaskResultError(content, conversation) -> "ErrorLike"
      [] OTHER -> "Success"

InitClassify ==
    /\ SandboxIdle
    /\ LibIdle
    /\ doc = Absent /\ originalReadmeContent = Nil /\ docAtStart = Absent
    /\ mode = "none" /\ pc = "classify" /\ prompt = "none"
    /\ result = NoResult /\ readmeUpdated = FALSE
    /\ outcome = NoOutcome /\ handledAs = "none"
    /\ execs = 0 /\ backups = 0 /\ restores = 0 /\ storeOp = "none"
    /\ warnings = <<>>

ClassifyReply ==
    /\ pc = "classify"
    /\ \E content \in ClassifyReplies, conversation \in ClassifyConversations :
          /\ result' = [FinalContent |-> content, Conversation |-> conversation]
          /\ handledAs' = Classify(content, conversation)
    /\ pc' = "classified"
    /\ UNCHANGED <<doc, originalReadmeContent, mode, prompt, readmeUpdated, outcome,
                   docAtStart, execs, backups, restores, storeOp, warnings>>
    /\ UNCHANGED <<sandboxVars, libVars>>

NextClassify == ClassifyReply

SpecClassify == InitClassify /\ [][NextClassify]_vars

-----------------------------------------------------------------------------
(* Properties of the classifier *)

HasFailurePhrase(content) ==
    \E ind \in errorIndicators : Contains(ToLower(content), ToLower(ind))

CarriesSuccess(entry) ==
    /\ entry.Type = "tool_result"
    /\ \E ind \in successIndicators : Contains(ToLower(entry.Content), ind)

CarriesFailure(entry) ==
    /\ entry.Type = "tool_result"
    /\ \E ind \in failureIndicators : Contains(ToLower(entry.Content), ind)

\* Among the last RecentWindow entries, the most recent tool_result that
\* carries a success or a failure phrase carries a success phrase.
LatestSignalIsSuccess(conversation) ==
    \E i \in 1 .. Len(conversation) :
        /\ i > Len(conversation) - RecentWindow
        /\ CarriesSuccess(conversation[i])
        /\ \A j \in (i + 1) .. Len(conversation) :
              ~CarriesSuccess(conversation[j]) /\ ~CarriesFailure(conversation[j])

C12_EmptyReplyNeverError ==
    (pc = "classified" /\ IsBlank(result.FinalContent)) => handledAs # "ErrorLike"

\* A whitespace-only reply after a failed tool call.
C12_Witness ==
    /\ pc = "classified" /\ result.FinalContent = <<" ", "\n">>
    /\ Len(result.Conversation) = 2
    /\ CarriesFailure(result.Conversation[2])
    /\ ~CarriesSuccess(result.Conversation[2])


-----------------------------------------------------------------------------
(* The protected-region specification: validatePreservedSections applied   *)
(* to an original and a new content drawn from bounded sets.                *)

\* Words of the original content and of the new content.
MaxOriginal == 5
MaxNew == 4

ContentWords == {PreserveStart, PreserveEnd, "r"}

Contents(n) == UNION {[1 .. k -> ContentWords] : k \in 0 .. n}

InitPreserve ==
    /\ SandboxIdle
    /\ AgentIdle
    /\ originalContent = <<>> /\ newContent = <<>> /\ registry = NoRegistry
    /\ status = NoStatus /\ foreach = NoForeach

ValidatePreservedSections ==
    /\ pc = "idle"
    /\ \E original \in Contents(MaxOriginal), new \in Contents(MaxNew) :
          /\ originalContent' = original
          /\ newContent' = new
          /\ warnings' \in validatePreservedSections(original, new)
    /\ pc' = "validated"
    /\ UNCHANGED <<doc, originalReadmeContent, mode, prompt, result, readmeUpdated,
                   outcome, handledAs, docAtStart, execs, backups, restores, storeOp>>
    /\ UNCHANGED <<sandboxVars, registry, status, foreach>>

NextPreserve == ValidatePreservedSections

SpecPreserve == InitPreserve /\ [][NextPreserve]_vars

\* The warnings of a list that name one section.
WarningsNaming(list, key) == {i \in 1 .. Len(list) : list[i].section = key}

\* C15: for every protected region extracted from the original content there
\* is no warning when the new content contains its exact text and exactly one
\* warning naming its key when it does not; there are as many warnings as
\* missing regions.
C15_OneWarningPerMissingRegion ==
    pc = "validated" =>
      LET regions == extractPreservedSections(originalContent)
          missing == {k \in DOMAIN regions : ~Contains(newContent, regions[k])}
      IN /\ \A k \in DOMAIN regions :
               Cardinality(WarningsNaming(warnings, k)) = IF k \in missing THEN 1 ELSE 0
         /\ Len(warnings) = Cardinality(missing)

\* Two regions, the first one missing from the new content and the second
\* one in it.
C15_Witness ==
    /\ pc = "validated"
    /\ originalContent = <<PreserveStart, "r", PreserveEnd, PreserveStart, PreserveEnd>>
    /\ newContent = <<"r", PreserveStart, PreserveEnd>>
    /\ warnings = <<Warning(SectionKey(1))>>


-----------------------------------------------------------------------------
(* The extraction of the protected regions: extractPreservedSections, in    *)
(* its two copies, applied to a content drawn from a bounded set.  The      *)
(* copy of the documentation agent knows the PRESERVE markers, the other    *)
(* copy the HUMAN-EDITED markers as well.                                   *)

MaxContent == 5

HumanEditedStart == "<!-- HUMAN-EDITED START -->"
HumanEditedEnd == "<!-- HUMAN-EDITED END -->"

\* The marker pairs of the two copies
markers ==
    << [start |-> PreserveStart, end |-> PreserveEnd, name |-> "PRESERVE"] >>

markersHumanEdited ==
    << [start |-> HumanEditedStart, end |-> HumanEditedEnd, name |-> "HUMAN-EDITED"],
       [start |-> PreserveStart, end |-> PreserveEnd, name |-> "PRESERVE"] >>

\* The inner loop of extractPreservedSections for one marker pair
RECURSIVE ExtractMarker(_, _, _, _)
ExtractMarker(marker, content, startIdx, sectionNum) ==
    LET start == IndexFrom(content, marker.start, startIdx)
        end == IndexFrom(content, marker.end, start)
    IN IF start = 0 \/ end = 0 THEN <<>>
       ELSE (<<marker.name, sectionNum>> :> SubSeq(content, start, end))
            @@ ExtractMarker(marker, content, end + 1, sectionNum + 1)

\* The copy of extractPreservedSections with both marker pairs: the loop
\* over the pairs from the i-th on
RECURSIVE extractPreservedSectionsHumanEdited(_, _)
extractPreservedSectionsHumanEdited(content, i) ==
    IF i > Len(markersHumanEdited) THEN <<>>
    ELSE ExtractMarker(markersHumanEdited[i], content, 1, 1)
         @@ extractPreservedSectionsHumanEdited(content, i + 1)

ExtractWords ==
    {PreserveStart, PreserveEnd, HumanEditedStart, HumanEditedEnd, "r"}

ExtractContents == UNION {[1 .. k -> ExtractWords] : k \in 0 .. MaxContent}

InitExtract ==
    /\ SandboxIdle
    /\ AgentIdle
    /\ originalContent \in ExtractContents
    /\ newContent = <<>> /\ registry = NoRegistry /\ status = NoStatus /\ foreach = NoForeach

\* One call of extractPreservedSections(content), of either copy; last is
\* the call and the map it returned.
ExtractPreservedSections ==
    /\ calls = 0
    /\ \E copy \in {"extractPreservedSections", "extractPreservedSections (HUMAN-EDITED)"} :
          last' = [tool |-> copy, path |-> <<>>, content |-> originalContent,
                   result |-> IF copy = "extractPreservedSections"
                              THEN extractPreservedSections(originalContent)
                              ELSE extractPreservedSectionsHumanEdited(originalContent, 1)]
    /\ calls' = 1
    /\ UNCHANGED <<fs, packageRoot>>
    /\ UNCHANGED <<agentVars, libVars>>

NextExtract == ExtractPreservedSections

SpecExtract == InitExtract /\ [][NextExtract]_vars

\* The places of a word in a content, from a place on.
Places(content, word, from) == {i \in from .. Len(content) : content[i] = word}

First(S) == CHOOSE x \in S : \A y \in S : x <= y

\* The regions of one marker pair, scanning left to right from a place: the
\* first start marker and the first end marker after it make a region, the
\* scan goes on behind it, and it ends at a start marker with no end marker
\* after it.  A region is the pair of its first and its last place.
RECURSIVE Regions(_, _, _)
Regions(content, marker, from) ==
    IF Places(content, marker.start, from) = {} THEN <<>>
    ELSE LET s == First(Places(content, marker.start, from)) IN
         IF Places(content, marker.end, s) = {} THEN <<>>
         ELSE LET e == First(Places(content, marker.end, s)) IN
              <<<<s, e>>>> \o Regions(content, marker, e + 1)

\* The marker pairs a copy knows.
MarkersOf(copy) ==
    IF copy = "extractPreservedSections" THEN markers ELSE markersHumanEdited

\* sections holds, for every marker pair of ms, the regions of the pair in
\* content and nothing else: region n of the pair NAME under the key NAME-n,
\* as the words from its start marker to its end marker.
HoldsRegions(sections, ms, content) ==
    /\ DOMAIN sections =
         UNION {{<<ms[i].name, n>> : n \in 1 .. Len(Regions(content, ms[i], 1))} :
                  i \in 1 .. Len(ms)}
    /\ \A i \in 1 .. Len(ms) :
          LET regions == Regions(content, ms[i], 1) IN
          \A n \in 1 .. Len(regions) :
             /\ sections[<<ms[i].name, n>>] =
                  SubSeq(content, regions[n][1], regions[n][2])
             /\ n > 1 => regions[n - 1][2] < regions[n][1]

\* C30: extractPreservedSections returns, for each marker pair it knows and
\* for each on its own, all regions found scanning left to right, none
\* overlapping another of the pair, keyed NAME-1, NAME-2, ... in their
\* order; each value is the text from the start marker through the end
\* marker; a start marker with no end marker after it gives no region and
\* ends the scan for the pair.
C30_RegionsPerMarkerPair ==
    calls = 1 => HoldsRegions(last.result, MarkersOf(last.tool), last.content)

\* Two PRESERVE regions and then a start marker with no end: two sections.
C30_Witness ==
    /\ calls = 1 /\ last.tool = "extractPreservedSections"
    /\ last.content = <<PreserveStart, PreserveEnd, PreserveStart, PreserveEnd,
                        PreserveStart>>
    /\ DOMAIN last.result = {<<"PRESERVE", 1>>, <<"PRESERVE", 2>>}

-----------------------------------------------------------------------------
(* The tool registry: the external providers of mcp.json and the tool list *)
(* NewDocumentationAgent hands to the agent.  A tool is its name.          *)

\* Providers in mcp.json.
MaxServers == 2

\* PackageTools(packageRoot): the local tools next to the bridge
PackageTools == <<"get_package_root">>

\* What one provider may advertise.
AdvertisedTools == {<<>>, <<"search">>, <<"search", "get_package_root">>}

\* One entry of mcpServers: whether it has a url, what happens when the
\* session is opened and its tools are listed, and the tools it advertises.
ServerEntries ==
    [Url : BOOLEAN, reach : {"ok", "connect fails", "listing fails"},
     advertised : AdvertisedTools]

\* mcp.json: absent, or its mcpServers.
MCPFiles ==
    {[exists |-> FALSE, Servers |-> <<>>]}
    \cup {[exists |-> TRUE, Servers |-> servers] :
            servers \in UNION {[keys -> ServerEntries] : keys \in SUBSET (1 .. MaxServers)}}

\* MCPServer.Connect(): the error it returns and the Tools of the server
\* after it, or the end of the process in log.Fatal.
Connect(srv) ==
    CASE srv.reach = "connect fails" -> [fatal |-> FALSE, err |-> TRUE, Tools |-> <<>>]
      [] srv.reach = "listing fails" -> [fatal |-> TRUE, err |-> FALSE, Tools |-> <<>>]
      [] OTHER -> [fatal |-> FALSE, err |-> FALSE, Tools |-> srv.advertised]

\* The Tools of the servers, appended in one order of the range over them.
RECURSIVE ServerTools(_, _, _)
ServerTools(Tools, order, i) ==
    IF i > Len(order) THEN <<>>
    ELSE Tools[order[i]] \o ServerTools(Tools, order, i + 1)

InitRegistry ==
    /\ SandboxIdle
    /\ AgentIdle
    /\ originalContent = <<>> /\ newContent = <<>> /\ status = NoStatus /\ foreach = NoForeach
    /\ \E file \in MCPFiles :
          registry = [phase |-> "start", file |-> file, pending |-> {},
                      Tools |-> <<>>, tools |-> <<>>, err |-> "none"]

RegistryFrame ==
    /\ UNCHANGED <<sandboxVars, agentVars, originalContent, newContent, status, foreach>>

\* MCPTools() up to its loop over the servers: nil when mcp.json cannot be
\* opened.
MCPToolsOpen ==
    /\ registry.phase = "start"
    /\ registry' =
         IF registry.file.exists
         THEN [registry EXCEPT !.phase = "connecting",
                               !.pending = DOMAIN registry.file.Servers,
                               !.Tools = [k \in DOMAIN registry.file.Servers |-> <<>>]]
         ELSE [registry EXCEPT !.phase = "loaded"]
    /\ RegistryFrame

\* MCPTools(): one turn of the loop over the servers, and its return after
\* the last one.
MCPToolsConnect ==
    /\ registry.phase = "connecting"
    /\ IF registry.pending = {}
       THEN registry' = [registry EXCEPT !.phase = "loaded"]
       ELSE \E key \in registry.pending :
              LET value == registry.file.Servers[key]
                  c == Connect(value)
              IN registry' =
                   CASE ~value.Url ->
                          [registry EXCEPT !.pending = @ \ {key}]
                     [] value.Url /\ c.fatal ->
                          [registry EXCEPT !.phase = "fatal", !.pending = @ \ {key}]
                     [] OTHER ->
                          [registry EXCEPT !.pending = @ \ {key}, !.Tools[key] = c.Tools]
    /\ RegistryFrame

\* NewDocumentationAgent after MCPTools(): the tools of the servers, then the
\* package tools, handed to NewAgent; the error it returns is nil.
NewDocumentationAgent ==
    /\ registry.phase = "loaded"
    /\ \E order \in Orders(DOMAIN registry.Tools) :
          registry' = [registry EXCEPT
                         !.phase = "built",
                         !.tools = ServerTools(registry.Tools, order, 1) \o PackageTools,
                         !.err = "nil"]
    /\ RegistryFrame

\* What session.CallTool may come back with inside the handler of a bridged
\* tool: a result, a result the provider marks as an error, an error of the
\* call, or the end of the 30 seconds of the call's context.
ProviderReplies ==
    { [kind |-> "result", IsError |-> FALSE, text |-> "found"],
      [kind |-> "result", IsError |-> TRUE, text |-> "unknown index"],
      [kind |-> "call fails", IsError |-> FALSE, text |-> "connection closed"],
      [kind |-> "timeout", IsError |-> FALSE, text |-> "context deadline exceeded"] }

\* json.Marshal(res) of a CallToolResult, as the words of the text
Marshal(reply) ==
    <<"{", "content", ":", reply.text, ",", "isError", ":",
      IF reply.IsError THEN "true" ELSE "false", "}">>

\* What a handler returns: (*ToolResult, error)
NilToolResult == [nil |-> TRUE, Content |-> <<>>, Error |-> ""]
BridgedResult(content) == [nil |-> FALSE, Content |-> content, Error |-> ""]

\* The Handler closure Connect gives every tool of a server
BridgedHandler(reply) ==
    IF reply.kind # "result"
    THEN [res |-> NilToolResult, err |-> reply.text]
    ELSE [res |-> BridgedResult(Marshal(reply)), err |-> ""]

\* The bridged tools of the list handed to the agent: those before the
\* package tools.
BridgedIndexes == 1 .. (Len(registry.tools) - Len(PackageTools))

\* The model calls a bridged tool of the agent.
CallBridgedTool ==
    /\ registry.phase = "built" /\ calls < MaxCalls
    /\ \E i \in BridgedIndexes, reply \in ProviderReplies :
          last' = [tool |-> registry.tools[i], path |-> <<>>, content |-> reply,
                   result |-> BridgedHandler(reply)]
    /\ calls' = calls + 1
    /\ UNCHANGED <<fs, packageRoot, registry>>
    /\ UNCHANGED <<agentVars, originalContent, newContent, status, foreach>>

NextRegistry ==
    MCPToolsOpen \/ MCPToolsConnect \/ NewDocumentationAgent \/ CallBridgedTool

SpecRegistry == InitRegistry /\ [][NextRegistry]_vars

\* The names of a tool list.
Names(list) == {list[i] : i \in 1 .. Len(list)}

\* C19: a provider that cannot be reached, or whose tools cannot be listed,
\* does not end the process, and the agent is built with the tools of every
\* other provider and with all local tools.
C19_DiscoveryFailuresIsolated ==
    /\ registry.phase # "fatal"
    /\ registry.phase = "built" =>
         /\ Names(PackageTools) \subseteq Names(registry.tools)
         /\ \A key \in DOMAIN registry.file.Servers :
               LET srv == registry.file.Servers[key] IN
               (srv.Url /\ srv.reach = "ok")
                  => Names(srv.advertised) \subseteq Names(registry.tools)

\* C20: the names of the tool list handed to the agent are all different; a
\* name that two providers, or a provider and the package tools, both have
\* makes the construction of the agent fail.
C20_ToolNamesUnique ==
    registry.phase = "built" =>
        \/ registry.err # "nil"
        \/ \A i, j \in 1 .. Len(registry.tools) :
              registry.tools[i] = registry.tools[j] => i = j

\* A bridged tool was called.
BridgedCall == registry.phase = "built" /\ calls > 0

\* C27: a bridged tool keeps the contract of the local tools: its handler
\* always returns a ToolResult and no fault; when the provider call fails or
\* runs out of time the ToolResult carries an error message, and a result
\* the provider marks as an error is not returned as a success payload.
C27_BridgedToolsKeepContract ==
    BridgedCall =>
        /\ ~last.result.res.nil /\ last.result.err = ""
        /\ (last.content.kind # "result" \/ last.content.IsError)
              => last.result.res.Error # ""

-----------------------------------------------------------------------------
(* The status indicator: one AnimatedStatus, the task thread that calls its *)
(* methods one after the other, and the animate goroutines its Start        *)
(* spawns.  A method is cut where it can block: at Lock and at the send on  *)
(* stopCh; a goroutine at the select, at Lock and inside the lock.          *)

\* Calls the task thread makes.
MaxOps == 3

\* Goroutines the model has room for.
MaxAnimators == 2

Animators == 1 .. MaxAnimators

\* The frames of NewAnimatedStatus, bar glyphs written in ASCII
frames ==
    <<"[#...]", "[##..]", "[###.]", "[####]", "[.###]", "[..##]", "[...#]", "[....]">>

\* The messages Update is called with.
NewMessages == {"working"}

\* NewAnimatedStatus(message), with the thread and the goroutines around it:
\* caller is where the task thread is, op the method it called last, arg the
\* argument of Update, animate where each goroutine is.
NewAnimatedStatus(message) ==
    [made |-> TRUE, message |-> message, active |-> FALSE, frameIndex |-> 0,
     mutex |-> "free", caller |-> "idle", op |-> "none", arg |-> "", ops |-> 0,
     animate |-> [g \in Animators |-> "none"]]

InitStatus ==
    /\ SandboxIdle
    /\ AgentIdle
    /\ originalContent = <<>> /\ newContent = <<>> /\ registry = NoRegistry
    /\ foreach = NoForeach
    /\ status = NewAnimatedStatus("start")

StatusFrame ==
    UNCHANGED <<sandboxVars, agentVars, originalContent, newContent, registry,
                foreach>>

\* The task thread can call a method and take the mutex in its first line.
CanEnter == status.caller = "idle" /\ status.ops < MaxOps /\ status.mutex = "free"

\* The indicator when the thread has done so.
Enter(method, at, arg) ==
    [status EXCEPT !.caller = at, !.mutex = "caller", !.op = method,
                   !.arg = arg, !.ops = @ + 1]

\* A goroutine that runs animate()
Alive(g) == status.animate[g] \in {"select", "ticked", "locked"}

\* Start(): a.mutex.Lock()
Start ==
    /\ CanEnter
    /\ status' = Enter("Start", "Start:locked", "")
    /\ StatusFrame

\* Start() without the test of active
StartLocked_AlwaysSpawns ==
    /\ status.caller = "Start:locked"
    /\ status' = [status EXCEPT !.active = TRUE, !.mutex = "free",
                                !.caller = "Start:go"]
    /\ StatusFrame

\* Start(): the test of active, up to a.mutex.Unlock()
StartLocked ==
    /\ status.caller = "Start:locked"
    /\ status' = IF status.active
                 THEN [status EXCEPT !.mutex = "free", !.caller = "idle"]
                 ELSE [status EXCEPT !.active = TRUE, !.mutex = "free",
                                     !.caller = "Start:go"]
    /\ StatusFrame

\* Start(): go a.animate()
StartGo ==
    /\ status.caller = "Start:go"
    /\ \E g \in Animators :
          /\ ~Alive(g)
          /\ \A h \in Animators : h < g => Alive(h)
          /\ status' = [status EXCEPT !.animate[g] = "select", !.caller = "idle"]
    /\ StatusFrame

\* Stop(), called as it is or from Finish(message) or Error(message):
\* a.mutex.Lock()
Stop ==
    /\ CanEnter
    /\ \E method \in {"Stop", "Finish", "Error"} :
          status' = Enter(method, "Stop:locked", "")
    /\ StatusFrame

\* Stop(): the test of active, up to a.mutex.Unlock()
StopLocked ==
    /\ status.caller = "Stop:locked"
    /\ status' = IF ~status.active
                 THEN [status EXCEPT !.mutex = "free", !.caller = "idle"]
                 ELSE [status EXCEPT !.active = FALSE, !.mutex = "free",
                                     !.caller = "Stop:send"]
    /\ StatusFrame

\* Stop(): a.stopCh <- true.  The channel has no buffer: the send goes
\* through when a goroutine is at the select and takes the case <-a.stopCh,
\* upon which that goroutine returns; Stop() prints and returns.
StopSend ==
    /\ status.caller = "Stop:send"
    /\ \E g \in Animators :
          /\ status.animate[g] = "select"
          /\ status' = [status EXCEPT !.animate[g] = "returned", !.caller = "idle"]
    /\ StatusFrame

\* Update(newMessage): a.mutex.Lock()
Update ==
    /\ CanEnter
    /\ \E newMessage \in NewMessages :
          status' = Enter("Update", "Update:locked", newMessage)
    /\ StatusFrame

\* Update(newMessage) with the frame index stepped without the remainder
UpdateLocked_NoWrap ==
    /\ status.caller = "Update:locked"
    /\ status' = IF status.active
                 THEN [status EXCEPT !.message = status.arg,
                                     !.frameIndex = @ + 3,
                                     !.mutex = "free", !.caller = "idle"]
                 ELSE [status EXCEPT !.mutex = "free", !.caller = "idle"]
    /\ StatusFrame

\* Update(newMessage): the body, up to the deferred Unlock
UpdateLocked ==
    /\ status.caller = "Update:locked"
    /\ status' = IF status.active
                 THEN [status EXCEPT !.message = status.arg,
                                     !.frameIndex = (@ + 3) % Len(frames),
                                     !.mutex = "free", !.caller = "idle"]
                 ELSE [status EXCEPT !.mutex = "free", !.caller = "idle"]
    /\ StatusFrame

\* Flash(): a.mutex.Lock()
Flash ==
    /\ CanEnter
    /\ status' = Enter("Flash", "Flash:locked", "")
    /\ StatusFrame

\* Flash(): the body, up to the deferred Unlock
FlashLocked ==
    /\ status.caller = "Flash:locked"
    /\ status' = IF status.active
                 THEN [status EXCEPT !.frameIndex = 3,
                                     !.mutex = "free", !.caller = "idle"]
                 ELSE [status EXCEPT !.mutex = "free", !.caller = "idle"]
    /\ StatusFrame

\* animate(): the select takes the case <-ticker.C
AnimateTick ==
    /\ \E g \in Animators :
          /\ status.animate[g] = "select"
          /\ status' = [status EXCEPT !.animate[g] = "ticked"]
    /\ StatusFrame

\* animate(): a.mutex.Lock() of the ticker case
AnimateLock ==
    /\ status.mutex = "free"
    /\ \E g \in Animators :
          /\ status.animate[g] = "ticked"
          /\ status' = [status EXCEPT !.animate[g] = "locked", !.mutex = "animate"]
    /\ StatusFrame

\* animate(): the ticker case inside the lock: return when the indicator is
\* not active, else print the frame and step frameIndex
AnimateFrame ==
    /\ \E g \in Animators :
          /\ status.animate[g] = "locked"
          /\ status' = IF ~status.active
                       THEN [status EXCEPT !.animate[g] = "returned",
                                           !.mutex = "free"]
                       ELSE [status EXCEPT !.frameIndex = (@ + 1) % Len(frames),
                                           !.animate[g] = "select",
                                           !.mutex = "free"]
    /\ StatusFrame

NextStatus ==
    \/ Start \/ StartLocked \/ StartGo
    \/ Stop \/ StopLocked \/ StopSend
    \/ Update \/ UpdateLocked
    \/ Flash \/ FlashLocked
    \/ AnimateTick \/ AnimateLock \/ AnimateFrame

\* The threads run: as long as one of them can take a step, a step is taken.
SpecStatus == InitStatus /\ [][NextStatus]_vars /\ WF_vars(NextStatus)

\* C28: the status indicator is never on the critical path: a call of Stop(),
\* as it is or from Finish() or Error(), returns under every interleaving of
\* the task thread with the ticks of the animation goroutine; the thread is
\* never left at the send on stopCh with no goroutine that could receive it.
C28_StopAlwaysReturns ==
    status.caller = "Stop:send" => \E g \in Animators : Alive(g)


-----------------------------------------------------------------------------
\* The validate_url tool.  A URL is a sequence of pieces; "sp" is a
\* whitespace character, "%" a percent sign that starts no valid escape.

MaxURL == 4

URLPieces == {"sp", "http", "https", "ftp", "h", ":", "//", "%"}

URLLetters == {"http", "https", "ftp", "h"}

URLs == UNION {[1 .. k -> URLPieces] : k \in 0 .. MaxURL}

\* The arguments of a call: a JSON object with the url, or text that
\* json.Unmarshal refuses.
URLArguments == {[json |-> FALSE, url |-> <<>>]} \cup {[json |-> TRUE, url |-> u] : u \in URLs}

\* strings.TrimSpace
RECURSIVE TrimLeft(_)
TrimLeft(s) == IF s # <<>> /\ Head(s) = "sp" THEN TrimLeft(Tail(s)) ELSE s

RECURSIVE TrimRight(_)
TrimRight(s) ==
    IF s # <<>> /\ s[Len(s)] = "sp" THEN TrimRight(SubSeq(s, 1, Len(s) - 1)) ELSE s

TrimSpace(s) == TrimRight(TrimLeft(s))

Has(s, piece) == \E i \in 1 .. Len(s) : s[i] = piece

\* The place of the first piece of s that is `piece`, 0 when there is none.
IndexOf(s, piece) ==
    IF Has(s, piece) THEN First({i \in 1 .. Len(s) : s[i] = piece}) ELSE 0

\* url.getScheme: letters up to the first colon are the scheme; a colon in
\* front is an error; any other character first means there is no scheme.
RECURSIVE getScheme(_, _)
getScheme(rawURL, i) ==
    IF i > Len(rawURL) THEN [err |-> FALSE, scheme |-> <<>>, rest |-> rawURL]
    ELSE IF rawURL[i] \in URLLetters THEN getScheme(rawURL, i + 1)
    ELSE IF rawURL[i] = ":"
         THEN IF i = 1 THEN [err |-> TRUE, scheme |-> <<>>, rest |-> <<>>]
              ELSE [err |-> FALSE, scheme |-> SubSeq(rawURL, 1, i - 1),
                    rest |-> SubSeq(rawURL, i + 1, Len(rawURL))]
    ELSE [err |-> FALSE, scheme |-> <<>>, rest |-> rawURL]

NoURL == [err |-> TRUE, Scheme |-> <<>>, Opaque |-> <<>>, Host |-> <<>>, Path |-> <<>>]

\* url.parseHost: a port behind the last colon has digits only, and the host
\* has no invalid escape.
validHost(authority) ==
    /\ ~Has(authority, "%")
    /\ Has(authority, ":") => authority[Len(authority)] = ":"

\* url.Parse, on the pieces of the URL.
Parse(rawURL) ==
    LET s == getScheme(rawURL, 1) IN
    IF s.err THEN NoURL
    ELSE IF s.rest = <<>> \/ Head(s.rest) # "//"
    THEN \* the rest does not begin with a slash
         IF s.scheme # <<>>
         THEN [err |-> FALSE, Scheme |-> s.scheme, Opaque |-> s.rest,
               Host |-> <<>>, Path |-> <<>>]
         ELSE LET cut == IndexOf(s.rest, "//")
                  segment == IF cut = 0 THEN s.rest ELSE SubSeq(s.rest, 1, cut - 1)
              IN  IF Has(segment, ":") \/ Has(s.rest, "%") THEN NoURL
                  ELSE [err |-> FALSE, Scheme |-> <<>>, Opaque |-> <<>>,
                        Host |-> <<>>, Path |-> s.rest]
    ELSE IF s.scheme # <<>> \/ ~(Len(s.rest) >= 2 /\ s.rest[2] = "//")
    THEN \* an authority follows the two slashes
         LET after == Tail(s.rest)
             cut == IndexOf(after, "//")
             authority == IF cut = 0 THEN after ELSE SubSeq(after, 1, cut - 1)
             path == IF cut = 0 THEN <<>> ELSE SubSeq(after, cut, Len(after))
         IN  IF ~validHost(authority) \/ Has(path, "%") THEN NoURL
             ELSE [err |-> FALSE, Scheme |-> s.scheme, Opaque |-> <<>>,
                   Host |-> authority, Path |-> path]
    ELSE IF Has(s.rest, "%") THEN NoURL
    ELSE [err |-> FALSE, Scheme |-> <<>>, Opaque |-> <<>>, Host |-> <<>>,
          Path |-> s.rest]

\* URL.String
String(u) ==
    (IF u.Scheme # <<>> THEN u.Scheme \o <<":">> ELSE <<>>)
    \o (IF u.Opaque # <<>> THEN u.Opaque
        ELSE (IF u.Host # <<>> THEN <<"//">> \o u.Host ELSE <<>>) \o u.Path)

\* What the network gives a probe: no response (an error), or a response
\* with a status, which redirects may have fetched from another URL.
StatusCodes == {200, 304, 404, 405, 501}

Answers ==
    {[sent |-> TRUE, err |-> TRUE, code |-> 0, moved |-> FALSE]}
    \cup {[sent |-> TRUE, err |-> FALSE, code |-> c, moved |-> FALSE] : c \in StatusCodes}
    \cup {[sent |-> TRUE, err |-> FALSE, code |-> 200, moved |-> TRUE]}

\* http.NewRequestWithContext refused the URL: nothing is sent.
NotSent == [sent |-> FALSE, err |-> TRUE, code |-> 0, moved |-> FALSE]

Moved == <<"http", ":", "//", "h", "//", "h">>

URLOut(valid, normalized, issues, requests) ==
    [out |-> [Valid |-> valid, NormalizedURL |-> normalized, Issues |-> issues,
              Error |-> ""],
     requests |-> requests]

\* The reachability probe of a syntactically valid URL: HEAD, then GET when
\* HEAD answered 405 or 501.
Probe(normalized, issues, head, get) ==
    LET headGot == head.sent /\ ~head.err
        tryGet == headGot /\ head.code \in {405, 501}
        getGot == tryGet /\ get.sent /\ ~get.err
        statusCode == IF getGot THEN get.code ELSE IF headGot THEN head.code ELSE 0
        reachable == \/ headGot /\ head.code >= 200 /\ head.code < 400
                     \/ getGot /\ get.code >= 200 /\ get.code < 400
        moved == IF getGot THEN get.moved ELSE headGot /\ head.moved
        issues1 == issues
            \o (IF ~head.sent THEN <<"request error">>
                ELSE IF head.err THEN <<"network error">> ELSE <<>>)
            \o (IF ~tryGet THEN <<>>
                ELSE IF ~get.sent THEN <<"request error (GET)">>
                ELSE IF get.err THEN <<"network error (GET)">> ELSE <<>>)
        issues2 == issues1
            \o (IF reachable THEN <<>>
                ELSE IF statusCode # 0 THEN <<"unreachable or unexpected status">>
                ELSE <<"unreachable: no response">>)
    IN  URLOut(TRUE, IF moved THEN Moved ELSE normalized, issues2,
               (IF head.sent THEN <<"HEAD">> ELSE <<>>)
               \o (IF tryGet /\ get.sent THEN <<"GET">> ELSE <<>>))

\* validate_url with the probe made for every URL that parses.
validateURLHandler_ProbesUnchecked(arguments, head, get) ==
    IF ~arguments.json
    THEN [out |-> [Valid |-> FALSE, NormalizedURL |-> <<>>, Issues |-> <<>>,
                   Error |-> "failed to parse arguments"],
          requests |-> <<>>]
    ELSE
    LET input == TrimSpace(arguments.url) IN
    IF input = <<>> THEN URLOut(FALSE, <<>>, <<"empty URL">>, <<>>)
    ELSE IF Has(input, "sp") THEN URLOut(FALSE, <<>>, <<"URL contains whitespace">>, <<>>)
    ELSE
    LET u == Parse(input) IN
    IF u.err THEN URLOut(FALSE, <<>>, <<"parse error">>, <<>>)
    ELSE
    LET badScheme == u.Scheme # <<"http">> /\ u.Scheme # <<"https">>
        issues == (IF ~badScheme THEN <<>>
                   ELSE IF u.Scheme = <<>> THEN <<"missing scheme (expected http or https)">>
                   ELSE <<"unsupported scheme (only http/https allowed)">>)
                  \o (IF u.Host = <<>> THEN <<"missing host">> ELSE <<>>)
        p == Probe(String(u), issues, head, get)
    IN  [out |-> [p.out EXCEPT !.Valid = ~(badScheme \/ u.Host = <<>>)],
         requests |-> p.requests]

\* The handler of validate_url, with the answers the network has for its
\* probes.
validateURLHandler(arguments, head, get) ==
    IF ~arguments.json
    THEN [out |-> [Valid |-> FALSE, NormalizedURL |-> <<>>, Issues |-> <<>>,
                   Error |-> "failed to parse arguments"],
          requests |-> <<>>]
    ELSE
    LET input == TrimSpace(arguments.url) IN
    IF input = <<>> THEN URLOut(FALSE, <<>>, <<"empty URL">>, <<>>)
    ELSE IF Has(input, "sp") THEN URLOut(FALSE, <<>>, <<"URL contains whitespace">>, <<>>)
    ELSE
    LET u == Parse(input) IN
    IF u.err THEN URLOut(FALSE, <<>>, <<"parse error">>, <<>>)
    ELSE
    LET badScheme == u.Scheme # <<"http">> /\ u.Scheme # <<"https">>
        issues == (IF ~badScheme THEN <<>>
                   ELSE IF u.Scheme = <<>> THEN <<"missing scheme (expected http or https)">>
                   ELSE <<"unsupported scheme (only http/https allowed)">>)
                  \o (IF u.Host = <<>> THEN <<"missing host">> ELSE <<>>)
    IN  IF badScheme \/ u.Host = <<>> THEN URLOut(FALSE, String(u), issues, <<>>)
        ELSE Probe(String(u), issues, head, get)

\* The probes a call can meet: they matter only to a URL that parses, and
\* the second only after a first that answered 405 or 501.
ProbesFor(arguments) ==
    IF arguments.json /\ ~Parse(TrimSpace(arguments.url)).err
    THEN {<<hd, gt>> \in (Answers \cup {NotSent}) \X (Answers \cup {NotSent}) :
             (hd.sent /\ ~hd.err /\ hd.code \in {405, 501}) \/ gt = NotSent}
    ELSE {<<NotSent, NotSent>>}

InitURL ==
    /\ SandboxIdle
    /\ AgentIdle
    /\ LibIdle

\* One call of the validate_url tool.
ValidateURL ==
    /\ calls = 0
    /\ \E arguments \in URLArguments :
          \E probes \in ProbesFor(arguments) :
             LET r == validateURLHandler(arguments, probes[1], probes[2]) IN
             last' = [tool |-> "validate_url", path |-> <<>>, content |-> arguments,
                      result |-> r.out, requests |-> r.requests,
                      probes |-> probes]
    /\ calls' = 1
    /\ UNCHANGED <<fs, packageRoot>>
    /\ UNCHANGED <<agentVars, libVars>>

NextURL == ValidateURL

SpecURL == InitURL /\ [][NextURL]_vars

\* The URL the handler works on: the url argument without the whitespace
\* around it.
URLInput == TrimSpace(last.content.url)

URLCalled == last.tool = "validate_url" /\ last.content.json

\* The issue that names each reason to reject a URL without a probe.
URLRejections ==
    LET u == Parse(URLInput) IN
    (IF URLInput = <<>> THEN {"empty URL"} ELSE {})
    \cup (IF Has(URLInput, "sp") THEN {"URL contains whitespace"} ELSE {})
    \cup (IF URLInput # <<>> /\ ~Has(URLInput, "sp") /\ u.err THEN {"parse error"} ELSE {})
    \cup (IF URLInput # <<>> /\ ~Has(URLInput, "sp") /\ ~u.err
          THEN (IF u.Scheme = <<>> THEN {"missing scheme (expected http or https)"}
                ELSE IF u.Scheme \notin {<<"http">>, <<"https">>}
                THEN {"unsupported scheme (only http/https allowed)"} ELSE {})
               \cup (IF u.Host = <<>> THEN {"missing host"} ELSE {})
          ELSE {})

-----------------------------------------------------------------------------
(* The foreach command: its sub-commands test-all and build-pipeline, and   *)
(* the working directory of the process                                     *)

\* Packages one run goes over.
MaxPackages == 2

\* The directory the process starts in.
StartDir == "work"

\* The directories that exist.  A package root outside them cannot be entered.
ExistingDirs == {StartDir, "a", "b"}

PackageRoots == {"a", "b", "gone"}

\* What getPackageRoots(cmd) returns: an error or a list of package roots.
PackageLists == UNION {[1 .. n -> PackageRoots] : n \in 0 .. MaxPackages}

\* The command the sub-command composes for every package.
ComposedCommand(sub) ==
    IF sub = "test-all" THEN "setupTestCommand" ELSE "setupBuildCommand"

\* os.Chdir(dir): the working directory it leaves, and whether it failed
Chdir(cwd, dir) ==
    IF dir \in ExistingDirs THEN [err |-> FALSE, cwd |-> dir]
    ELSE [err |-> TRUE, cwd |-> cwd]

\* os.Getwd()
Getwd(cwd) == [err |-> cwd \notin ExistingDirs, dir |-> cwd]

InitForeach ==
    /\ SandboxIdle
    /\ AgentIdle
    /\ originalContent = <<>> /\ newContent = <<>> /\ registry = NoRegistry
    /\ status = NoStatus
    /\ \E sub \in {"test-all", "build-pipeline"} :
          foreach = [made |-> TRUE, sub |-> sub, cwd |-> StartDir, originalDir |-> "",
                     packageList |-> <<>>, i |-> 0, at |-> "start", ret |-> "none",
                     why |-> "", ran |-> <<>>]

ForeachFrame ==
    UNCHANGED <<sandboxVars, agentVars, originalContent, newContent, registry, status>>

\* RunE returns: nil, or the error of the statement named by why.
ForeachReturn(ret, why) == [foreach EXCEPT !.at = "returned", !.ret = ret, !.why = why]

\* RunE up to the loop: os.Getwd and getPackageRoots
ForeachStart ==
    /\ foreach.at = "start"
    /\ \E rootsFound \in BOOLEAN, packageList \in PackageLists :
          LET wd == Getwd(foreach.cwd) IN
          foreach' =
             IF wd.err THEN ForeachReturn("error", "getwd")
             ELSE IF ~rootsFound
             THEN [ForeachReturn("error", "roots") EXCEPT !.originalDir = wd.dir]
             ELSE [foreach EXCEPT !.originalDir = wd.dir, !.packageList = packageList,
                                  !.i = 1, !.at = "loop"]
    /\ ForeachFrame

\* The loop for one package, up to the call of ComposeCommands: os.Chdir to
\* the package root and os.Getwd
ForeachChdir ==
    /\ foreach.at = "loop" /\ foreach.i <= Len(foreach.packageList)
    /\ LET cd == Chdir(foreach.cwd, foreach.packageList[foreach.i])
           wd == Getwd(cd.cwd)
       IN  foreach' =
             IF cd.err THEN ForeachReturn("error", "chdir")
             ELSE IF wd.err THEN [ForeachReturn("error", "getwd") EXCEPT !.cwd = cd.cwd]
             ELSE [foreach EXCEPT !.cwd = cd.cwd, !.at = "compose"]
    /\ ForeachFrame

\* The loop for one package, from the call of ComposeCommands on: the
\* composed command runs in the working directory and comes back with or
\* without an error, then os.Chdir to the original directory
ForeachCompose ==
    /\ foreach.at = "compose"
    /\ \E failed \in BOOLEAN :
          LET run == [dir |-> foreach.cwd, command |-> ComposedCommand(foreach.sub)]
              back == Chdir(foreach.cwd, foreach.originalDir)
          IN  foreach' =
                IF failed
                THEN [ForeachReturn("error", "compose") EXCEPT !.ran = Append(@, run)]
                ELSE IF back.err
                THEN [ForeachReturn("error", "chdir back") EXCEPT !.ran = Append(@, run)]
                ELSE [foreach EXCEPT !.ran = Append(@, run), !.cwd = back.cwd,
                                     !.i = @ + 1, !.at = "loop"]
    /\ ForeachFrame

\* The loop is through: return nil
ForeachDone ==
    /\ foreach.at = "loop" /\ foreach.i > Len(foreach.packageList)
    /\ foreach' = ForeachReturn("nil", "")
    /\ ForeachFrame

NextForeach == ForeachStart \/ ForeachChdir \/ ForeachCompose \/ ForeachDone

SpecForeach == InitForeach /\ [][NextForeach]_vars

\* The composed command ran once for each of the first n packages, in the
\* root of that package.
RanInRoots(n) ==
    /\ Len(foreach.ran) = n
    /\ \A k \in 1 .. n :
          foreach.ran[k] = [dir |-> foreach.packageList[k],
                            command |-> ComposedCommand(foreach.sub)]

\* C39: test-all and build-pipeline run the composed command for each package
\* with the working directory set to the root of that package, and when the
\* sub-command returns, with success or with an error from any package, the
\* working directory of the process is the one it had at the start.
C39_ForeachRestoresWorkingDirectory ==
    (foreach.made /\ foreach.at = "returned") =>
        /\ foreach.ret = "nil" => RanInRoots(Len(foreach.packageList))
        /\ foreach.ret = "error" => \E n \in 0 .. Len(foreach.packageList) : RanInRoots(n)
        /\ foreach.cwd = StartDir

-----------------------------------------------------------------------------
(* Further properties of the document store and of the orchestrator *)

\* C32: restore never deletes a document that existed when the backup was
\* taken, readable or not, and the backup records "absent" only when there
\* was no document.
C32_RestoreKeepsExistingDocument ==
    /\ (storeOp = "restore" /\ docAtStart.exists) => doc.exists
    /\ (backups = 1 /\ ~originalReadmeContent.set) => ~docAtStart.exists

\* An execution of the task: ExecuteTask is called with the loop's prompt.
Executes == pc \in {"i_exec", "n_first", "n_section", "n_second"} /\ execs' = execs + 1

\* C33: every prompt sent to the model is non-empty; an empty or cancelled
\* change text after 'Request changes' leads to no execution with an empty
\* prompt.
C33_PromptsNeverEmpty ==
    [][Executes => prompt # ""]_vars

\* The document is not what the backup holds: another content than the one
\* backed up, or a document where the backup recorded none.
BackupDiffers ==
    IF originalReadmeContent.set THEN doc.content # originalReadmeContent.content
    ELSE doc.exists

UnattendedReturned == mode = "unattended" /\ pc = "done" /\ execs >= 1

\* C34: unattended mode returns success only if the document then exists, is
\* non-empty and differs from the backup; whenever the document is unchanged,
\* missing or empty after the last attempt the result is an error.
C34_UnattendedSuccessMeansUpdated ==
    /\ (UnattendedReturned /\ outcome.ret = "nil") =>
          (doc.exists /\ doc.content # "" /\ BackupDiffers)
    /\ (UnattendedReturned /\ (~doc.exists \/ doc.content = "" \/ ~BackupDiffers)) =>
          outcome.ret = "error"

C34_Witness ==
    /\ UnattendedReturned
    /\ outcome = Outcome("nil", "updated")
    /\ execs = 3
    /\ handledAs = "TokenLimitHit"
    /\ originalReadmeContent = Some("A")
    /\ doc = DocFile("B")

-----------------------------------------------------------------------------
(* Further properties of the sandbox *)

WriteTools == {"write_file", "write_file (older copy)"}

\* A call of write_file that the sandbox denied.
DeniedWrite == IsCall /\ last'.tool \in WriteTools /\ Denied(last'.result)

\* C35: a denied write_file call has no side effect: no directory is created
\* and no file is created or modified.
C35_DeniedWriteChangesNothing ==
    [][DeniedWrite => fs' = fs]_vars

\* A denied write below a directory that does not exist.
C35_Witness ==
    /\ last.tool = "write_file" /\ Denied(last.result)
    /\ last.path = <<"lnk", "new">>
    /\ packageRoot = RealRoot
    /\ Node(fs, <<"pkg", "lnk">>).kind = "none"

\* A call of list_directory that returned a listing.
Listed == IsCall /\ last'.tool = "list_directory" /\ last'.result.Error = ""

\* The entries of the listed directory that the listing leaves out.
Omitted ==
    OSReadDir(fs, Join(packageRoot, last'.path)).names \ last'.result.Entries

\* The listed directory is the root of the package.
ListsRoot ==
    OSWalk(fs, Join(packageRoot, last'.path)).path = OSWalk(fs, packageRoot).path

\* C36: list_directory leaves out an entry only when it is the directory docs
\* of the package root; an entry named docs anywhere else, as the allowed
\* directory in the listing of _dev/build, is listed.
C36_OnlyRootDocsHidden ==
    [][Listed => /\ Omitted \subseteq {"docs"}
                 /\ Omitted # {} => ListsRoot]_vars

-----------------------------------------------------------------------------
(* Further properties of the status indicator *)

\* The goroutines that run animate()
Running == {g \in Animators : Alive(g)}

InStart == status.caller \in {"Start:locked", "Start:go"}

InStop == status.caller \in {"Stop:locked", "Stop:send"}

\* C37 as the specification states it: at most one animation goroutine is
\* alive, and exactly one whenever the indicator is active and no Stop is in
\* progress.
C37_OneAnimatorUnlessStopping ==
    /\ Cardinality(Running) <= 1
    /\ (status.active /\ ~InStop) => Cardinality(Running) = 1

\* C37, corrected: at most one animation goroutine is alive, and exactly one
\* whenever the indicator is active and neither a Start nor a Stop is in
\* progress (Start sets active and releases the mutex before it spawns the
\* goroutine).
C37_OneAnimatorBetweenCalls ==
    /\ Cardinality(Running) <= 1
    /\ (status.active /\ ~InStop /\ ~InStart) => Cardinality(Running) = 1

\* Start, Update and Start again: the second Start found the indicator active.
C37_Witness ==
    /\ status.made /\ status.active /\ status.caller = "idle"
    /\ status.ops = 3 /\ status.op = "Start" /\ status.message = "working"
    /\ Running = {1}

\* frameIndex is an index of frames (Go counts them from 0).
FrameInRange == status.frameIndex \in 0 .. (Len(frames) - 1)

\* A step that writes the display state.
DisplayWritten ==
    status'.message # status.message \/ status'.frameIndex # status.frameIndex

\* The mutex is held, by the thread inside a method or by a goroutine inside
\* its ticker case.
MutexHeld ==
    \/ status.mutex = "caller" /\ status.caller \in {"Update:locked", "Flash:locked"}
    \/ status.mutex = "animate" /\ \E g \in Animators : status.animate[g] = "locked"

\* The body of Update or Flash runs on an indicator that is not active.
InactiveCall ==
    /\ status.caller \in {"Update:locked", "Flash:locked"} /\ ~status.active
    /\ status'.caller = "idle"

\* C38: the display state is accessed only under the mutex, frameIndex stays
\* within 0..len(frames)-1 after any sequence of ticks, Update and Flash
\* calls, and Update and Flash on an inactive indicator leave message and
\* frameIndex unchanged.
C38_DisplayStateGuarded ==
    /\ []FrameInRange
    /\ [][/\ DisplayWritten => MutexHeld
          /\ InactiveCall => ~DisplayWritten]_vars

\* Update has run on an indicator that was never started.
C38_Witness ==
    /\ status.made /\ ~status.active /\ status.caller = "idle"
    /\ status.ops = 1 /\ status.op = "Update" /\ status.arg = "working"
    /\ status.message = "start" /\ status.frameIndex = 0

=============================================================================
